---- MODULE Spec2Model ----
(***************************************************************************)
(* Model of the autotest helpers.                                          *)
(*                                                                         *)
(* c_helper (src/c_helper/c_helper/__init__.py): the ltrace log parser,     *)
(* that is the ordered regex table regex_dict, the classifier               *)
(* run_through_regexes, the construction of a Trace and its two queries,    *)
(* get_status and lines_for_pid; the unittest classes TestExecutable and    *)
(* the tests simple_test makes; the tracer run by _exec as a process group  *)
(* under Trace.__init__; and the context manager ongoing_process.           *)
(*                                                                         *)
(* notebook_helper: merge of two notebooks (merger/__init__.py) and         *)
(* run_cells over a notebook module (importer/__init__.py).                 *)
(*                                                                         *)
(* python_helper: ResultsGrid.filter (test_case_validation_fixture.py),     *)
(* bound_timeout (timeout.py) and ASTParser.get_recursive                   *)
(* (code_properties.py).                                                    *)
(*                                                                         *)
(* Each helper has its own variables and its own specification; the        *)
(* variables of the other helpers stay at rest in it.                       *)
(*                                                                         *)
(* A Python str is a sequence of one-character strings.  The value None is  *)
(* the one-element sequence <<"None">>, which is no str (its element has     *)
(* four characters).  The keys of regex_dict are TLA+ strings.              *)
(***************************************************************************)
EXTENDS Integers, Sequences, FiniteSets, TLC

VARIABLES
    log_file,       \* the lines of ltrace_log.txt on disk (DEFAULT_LTRACE_LOG_FILE)
    pc,             \* where the Trace constructor stands: new, loop, done, raised
    split_lines,    \* self.split_lines
    idx,            \* position of the for loop of Trace.__init__ in split_lines
    parsed_line,    \* the local parsed_line of the last loop iteration
    lines,          \* self.lines, the flat list of 5-element records
    process_log,    \* self.process_log, pid -> list of 4-element records
    first_process,  \* self.first_process
    built,          \* the Trace objects whose construction has completed
    query,          \* the last query made on the constructed Trace
    ret,            \* what that query returned (or the exception it raised)
    trace_line,     \* the argument of a direct call of run_through_regexes
    final_result,   \* what that call returned
    run             \* how _exec ended in the last Trace constructor

\* TestExecutable and simple_test (c_helper)
VARIABLES
    klass,          \* the attributes a TestExecutable subclass is declared with
    compiler,       \* how the run of gcc or make ended in setUpClass
    compiled,       \* cls.compiled: unset until setUpClass assigns it
    class_error,    \* the exception setUpClass raised, none otherwise
    test,           \* the test method unittest ran last
    program,        \* what the executable does when that test runs it
    outcome         \* how unittest recorded that test

\* merge (notebook_helper.merger)
VARIABLES
    notebook1,       \* the cells of the first argument of merge
    notebook2,       \* the cells of the second argument
    new_notebook,    \* new_notebook.cells
    seen_ids,        \* the local seen_ids
    merge_at         \* the loop merge stands in and the cell it comes to next

\* ResultsGrid.filter (python_helper.test_case_validation_fixture)
VARIABLES
    grid,        \* self._results: for each test name its row, mock name -> passed
    asked,       \* the arguments of the last call of filter
    filtered     \* what that call returned or raised

\* bound_timeout (python_helper.timeout)
VARIABLES
    seconds,      \* the argument seconds of bound_timeout
    behaviour,    \* what the decorated function does, run after run
    runs,         \* the runs of the function the call has made so far
    wrapped       \* where the call of wrapped_for_errors stands, how it ended

\* ASTParser.get_recursive (python_helper.code_properties)
VARIABLES
    dependencies,    \* self._dependencies: name -> the names it calls
    indirect,        \* the argument indirect of get_recursive
    current,         \* the dict get_dependencies works on
    passes,          \* the calls of get_dependencies made so far
    recursive        \* what get_recursive returned

\* run_cells (notebook_helper.importer)
VARIABLES
    cells,             \* module.__cells__: the kind of each cell
    raise_on_error,    \* the argument raise_on_error of run_cells
    executed,          \* the calls of cell.run made so far and how each ended
    cell_at,           \* the cell run_cells comes to next
    escaped            \* the exception that left run_cells, none otherwise

\* _exec under Trace.__init__ and TestTrace._check_trace (c_helper)
VARIABLES
    ltrace_flags,    \* the flags the tracer is invoked with
    tracer_runs,     \* the invocations of the tracer so far
    log_written,     \* the invocation whose tracer opened ltrace_log.txt last
    pgroup,          \* the processes of the tracer's process group and their states
    exec_at,         \* where _exec stands, how it ended
    sigterm,         \* SIGTERM has been sent to the process group
    raw              \* what the constructor read from the log file

\* ongoing_process (c_helper)
VARIABLES
    check_killed,    \* the argument check_killed of ongoing_process
    server,          \* what the spawned process does: its end, what it writes
    with_body,       \* what the body of the with statement does
    proc,            \* the Popen object: process state, returncode, exception, stdout
    context_at,      \* the statement of ongoing_process control stands at
    left_by          \* how control left the with statement

traceVars == <<log_file, pc, split_lines, idx, parsed_line, lines, process_log,
               first_process, built, query, ret, trace_line, final_result, run>>

executableVars == <<klass, compiler, compiled, class_error, test, program, outcome>>

mergeVars == <<notebook1, notebook2, new_notebook, seen_ids, merge_at>>

gridVars == <<grid, asked, filtered>>

timeoutVars == <<seconds, behaviour, runs, wrapped>>

recursiveVars == <<dependencies, indirect, current, passes, recursive>>

cellsVars == <<cells, raise_on_error, executed, cell_at, escaped>>

runnerVars == <<ltrace_flags, tracer_runs, log_written, pgroup, exec_at, sigterm, raw>>

ongoingVars == <<check_killed, server, with_body, proc, context_at, left_by>>

\* the variables outside the trace parser
helperVars == <<executableVars, mergeVars, gridVars, timeoutVars, recursiveVars, cellsVars, runnerVars, ongoingVars>>

vars == <<traceVars, helperVars>>

\* the variables of a helper at rest
Nothing == [kind |-> "none"]

ExecutableIdle ==
    /\ klass = Nothing
    /\ compiler = Nothing
    /\ compiled = "unset"
    /\ class_error = "none"
    /\ test = Nothing
    /\ program = Nothing
    /\ outcome = Nothing

MergeIdle ==
    /\ notebook1 = <<>>
    /\ notebook2 = <<>>
    /\ new_notebook = <<>>
    /\ seen_ids = {}
    /\ merge_at = [loop |-> "idle", i |-> 0]

GridIdle ==
    /\ grid = <<>>
    /\ asked = Nothing
    /\ filtered = Nothing

TimeoutIdle ==
    /\ seconds = 0
    /\ behaviour = <<>>
    /\ runs = <<>>
    /\ wrapped = Nothing

RecursiveIdle ==
    /\ dependencies = <<>>
    /\ indirect = FALSE
    /\ current = <<>>
    /\ passes = 0
    /\ recursive = Nothing

CellsIdle ==
    /\ cells = <<>>
    /\ raise_on_error = FALSE
    /\ executed = <<>>
    /\ cell_at = 0
    /\ escaped = "none"

RunnerIdle ==
    /\ ltrace_flags = <<>>
    /\ tracer_runs = 0
    /\ log_written = Nothing
    /\ pgroup = <<>>
    /\ exec_at = "idle"
    /\ sigterm = FALSE
    /\ raw = Nothing

OngoingIdle ==
    /\ check_killed = FALSE
    /\ server = Nothing
    /\ with_body = Nothing
    /\ proc = Nothing
    /\ context_at = "idle"
    /\ left_by = Nothing

HelpersIdle ==
    /\ ExecutableIdle
    /\ MergeIdle
    /\ GridIdle
    /\ TimeoutIdle
    /\ RecursiveIdle
    /\ CellsIdle
    /\ RunnerIdle
    /\ OngoingIdle

\* for each helper, the variables of the others and their rest
outsideExecutable == <<traceVars, mergeVars, gridVars, timeoutVars, recursiveVars, cellsVars, runnerVars, ongoingVars>>
ExecutableAlone == MergeIdle /\ GridIdle /\ TimeoutIdle /\ RecursiveIdle /\ CellsIdle /\ RunnerIdle /\ OngoingIdle

outsideMerge == <<traceVars, executableVars, gridVars, timeoutVars, recursiveVars, cellsVars, runnerVars, ongoingVars>>
MergeAlone == ExecutableIdle /\ GridIdle /\ TimeoutIdle /\ RecursiveIdle /\ CellsIdle /\ RunnerIdle /\ OngoingIdle

outsideGrid == <<traceVars, executableVars, mergeVars, timeoutVars, recursiveVars, cellsVars, runnerVars, ongoingVars>>
GridAlone == ExecutableIdle /\ MergeIdle /\ TimeoutIdle /\ RecursiveIdle /\ CellsIdle /\ RunnerIdle /\ OngoingIdle

outsideTimeout == <<traceVars, executableVars, mergeVars, gridVars, recursiveVars, cellsVars, runnerVars, ongoingVars>>
TimeoutAlone == ExecutableIdle /\ MergeIdle /\ GridIdle /\ RecursiveIdle /\ CellsIdle /\ RunnerIdle /\ OngoingIdle

outsideRecursive == <<traceVars, executableVars, mergeVars, gridVars, timeoutVars, cellsVars, runnerVars, ongoingVars>>
RecursiveAlone == ExecutableIdle /\ MergeIdle /\ GridIdle /\ TimeoutIdle /\ CellsIdle /\ RunnerIdle /\ OngoingIdle

outsideCells == <<traceVars, executableVars, mergeVars, gridVars, timeoutVars, recursiveVars, runnerVars, ongoingVars>>
CellsAlone == ExecutableIdle /\ MergeIdle /\ GridIdle /\ TimeoutIdle /\ RecursiveIdle /\ RunnerIdle /\ OngoingIdle

outsideRunner == <<traceVars, executableVars, mergeVars, gridVars, timeoutVars, recursiveVars, cellsVars, ongoingVars>>
RunnerAlone == ExecutableIdle /\ MergeIdle /\ GridIdle /\ TimeoutIdle /\ RecursiveIdle /\ CellsIdle /\ OngoingIdle

outsideOngoing == <<traceVars, executableVars, mergeVars, gridVars, timeoutVars, recursiveVars, cellsVars, runnerVars>>
OngoingAlone == ExecutableIdle /\ MergeIdle /\ GridIdle /\ TimeoutIdle /\ RecursiveIdle /\ CellsIdle /\ RunnerIdle

----------------------------------------------------------------------------
(* Bounds of the model *)

\* lines in the log file
MaxLines == 3
\* chunks a classifier input line is made of
MaxChunks == 4
\* Trace objects constructed from the log file
MaxTraces == 2

----------------------------------------------------------------------------
(* Python values *)

None == <<"None">>
EmptyStr == <<>>

Max(S) == CHOOSE x \in S : \A y \in S : y <= x
Min(S) == CHOOSE x \in S : \A y \in S : x <= y

----------------------------------------------------------------------------
(* Regular expressions (module re).  A pattern is a sequence of items; an    *)
(* item is a quantified character class, a literal or the end anchor.  A     *)
(* class is a set of characters or the complement of one.  open and close    *)
(* give the capturing group that starts before and ends after the item.      *)

Digit == [neg |-> FALSE, set |-> {"0", "1", "2", "3", "4", "5", "6", "7", "8", "9"}]
Space == [neg |-> FALSE, set |-> {" ", "\t", "\n", "\r", "\f"}]
PlusMinus == [neg |-> FALSE, set |-> {"-", "+"}]
Minus == [neg |-> FALSE, set |-> {"-"}]
Dot == [neg |-> TRUE, set |-> {"\n"}]

InClass(ch, cls) == (ch \in cls.set) # cls.neg

Item(t, c, l) == [t |-> t, c |-> c, l |-> l, open |-> 0, close |-> 0]
Plus(c) == Item("plus", c, <<>>)
Star(c) == Item("star", c, <<>>)
Lazy(c) == Item("lazy", c, <<>>)
Opt(c) == Item("opt", c, <<>>)
One(c) == Item("one", c, <<>>)
Lit(l) == Item("lit", Dot, l)
End == Item("end", Dot, <<>>)
Group(it, g) == [it EXCEPT !.open = g, !.close = g]
GroupOpen(it, g) == [it EXCEPT !.open = g]
GroupClose(it, g) == [it EXCEPT !.close = g]

Fail == <<-1>>

LitAt(s, i, l) ==
    /\ i + Len(l) - 1 <= Len(s)
    /\ \A k \in 1..Len(l) : s[i + k - 1] = l[k]

\* the last position of the longest run of characters of class c that starts
\* at position i of s (i - 1 when s[i] is not in c)
RunEnd(s, i, c) ==
    LET out == {k \in i..Len(s) : ~InClass(s[k], c)}
    IN IF out = {} THEN Len(s)
       ELSE (CHOOSE k \in out : \A m \in i..(k - 1) : m \notin out) - 1

\* the positions at which item it, started at position i of s, can end
\* (i - 1 for an empty match)
Ends(it, s, i) ==
    CASE it.t = "lit" -> IF LitAt(s, i, it.l) THEN {i + Len(it.l) - 1} ELSE {}
      [] it.t = "end" -> IF i = Len(s) + 1 THEN {i - 1} ELSE {}
      [] it.t = "one" -> IF i <= Len(s) /\ InClass(s[i], it.c) THEN {i} ELSE {}
      [] it.t = "opt" -> {i - 1} \cup (IF i <= Len(s) /\ InClass(s[i], it.c) THEN {i} ELSE {})
      [] it.t = "plus" -> i..RunEnd(s, i, it.c)
      [] OTHER -> (i - 1)..RunEnd(s, i, it.c)

\* j is no end of item k when the item after it is a literal or the end
\* anchor that cannot start at j + 1 (looked up before the rest is tried)
Viable(re, s, k, j) ==
    \/ k = Len(re)
    \/ re[k + 1].t \notin {"lit", "end"}
    \/ re[k + 1].t = "end" /\ j = Len(s)
    \/ re[k + 1].t = "lit" /\ j < Len(s) /\ s[j + 1] = re[k + 1].l[1]

\* the match preferred among the matches ok of an item and the rest of the
\* pattern: the longest extent of a greedy item, the shortest of a lazy one
Best(lazy, ok) ==
    IF ok = {} THEN Fail
    ELSE CHOOSE x \in ok : \A y \in ok : IF lazy THEN x[1] <= y[1] ELSE x[1] >= y[1]

\* R holds, for each extent of an item, the extent followed by the match of
\* the rest of the pattern, or by -1 when the rest does not match
Pick(lazy, R) ==
    CHOOSE r \in {Best(lazy, ok) : ok \in {{x \in R : x[Len(x)] # -1}}} : TRUE

\* Backtracking match of items k.. of re at position i of s: the end position
\* of each item, or Fail.  A greedy item takes the longest extent with which
\* the rest of the pattern matches, a lazy one the shortest.
RECURSIVE MatchFrom(_, _, _, _)
MatchFrom(re, s, k, i) ==
    IF k > Len(re) THEN <<>>
    ELSE Pick(re[k].t = "lazy",
              {<<j>> \o MatchFrom(re, s, k + 1, j + 1) :
                  j \in {e \in Ends(re[k], s, i) : Viable(re, s, k, e)}})

\* parser.match(trace_line): anchored at the start of the line
Match(re, s) == MatchFrom(re, s, 1, 1)

NumGroups(re) == Cardinality({k \in 1..Len(re) : re[k].open # 0})

\* result.groups(), for a match m of re on s
Groups(re, s, m) ==
    [g \in 1..NumGroups(re) |->
        LET ko == CHOOSE k \in 1..Len(re) : re[k].open = g
            kc == CHOOSE k \in 1..Len(re) : re[k].close = g
            from == IF ko = 1 THEN 1 ELSE m[ko - 1] + 1
        IN SubSeq(s, from, m[kc])]

----------------------------------------------------------------------------
(* regex_dict: the five patterns, in the order of the OrderedDict *)

\* ([0-9]+)\s*<\.\.\. (.*) (?:resumed>(.*)=\s)(-?[0-9]+)$
resumed ==
    << Group(Plus(Digit), 1), Star(Space), Lit(<<"<", ".", ".", ".", " ">>),
       Group(Star(Dot), 2), Lit(<<" ", "r", "e", "s", "u", "m", "e", "d", ">">>),
       Group(Star(Dot), 3), Lit(<<"=">>), One(Space),
       GroupOpen(Opt(Minus), 4), GroupClose(Plus(Digit), 4), End >>

\* ([0-9]+)\s*(.*)\((.*)<unfinished.*$
unfinished ==
    << Group(Plus(Digit), 1), Star(Space), Group(Star(Dot), 2), Lit(<<"(">>),
       Group(Star(Dot), 3),
       Lit(<<"<", "u", "n", "f", "i", "n", "i", "s", "h", "e", "d">>),
       Star(Dot), End >>

\* ([0-9]+)\s*(.*)\((.*)<no return.*$
no_return ==
    << Group(Plus(Digit), 1), Star(Space), Group(Star(Dot), 2), Lit(<<"(">>),
       Group(Star(Dot), 3),
       Lit(<<"<", "n", "o", " ", "r", "e", "t", "u", "r", "n">>),
       Star(Dot), End >>

\* ([0-9]+)\s*[-+]*\s+(.*)\s*\((.*)\)\s+[-+]*$
special ==
    << Group(Plus(Digit), 1), Star(Space), Star(PlusMinus), Plus(Space),
       Group(Star(Dot), 2), Star(Space), Lit(<<"(">>), Group(Star(Dot), 3),
       Lit(<<")">>), Plus(Space), Star(PlusMinus), End >>

\* variant of function_call with a greedy name group:
\* ([0-9]+)\s*(.*)\((.*)\).*?=\s+(.+)$
function_call_greedy ==
    << Group(Plus(Digit), 1), Star(Space), Group(Star(Dot), 2), Lit(<<"(">>),
       Group(Star(Dot), 3), Lit(<<")">>), Lazy(Dot), Lit(<<"=">>), Plus(Space),
       Group(Plus(Dot), 4), End >>

\* ([0-9]+)\s*(.*?)\((.*)\).*?=\s+(.+)$
function_call ==
    << Group(Plus(Digit), 1), Star(Space), Group(Lazy(Dot), 2), Lit(<<"(">>),
       Group(Star(Dot), 3), Lit(<<")">>), Lazy(Dot), Lit(<<"=">>), Plus(Space),
       Group(Plus(Dot), 4), End >>

\* variant of regex_dict with the keys in alphabetical order, which is not
\* the order of insertion
regex_dict_sorted ==
    << [key |-> "function_call", regex |-> function_call],
       [key |-> "no_return", regex |-> no_return],
       [key |-> "resumed", regex |-> resumed],
       [key |-> "special", regex |-> special],
       [key |-> "unfinished", regex |-> unfinished] >>

regex_dict ==
    << [key |-> "resumed", regex |-> resumed],
       [key |-> "unfinished", regex |-> unfinished],
       [key |-> "no_return", regex |-> no_return],
       [key |-> "special", regex |-> special],
       [key |-> "function_call", regex |-> function_call] >>

----------------------------------------------------------------------------
(* run_through_regexes *)

\* the index of the first occurrence of sep in s, 0 when there is none
Find(s, sep) ==
    LET at == {i \in 1..Len(s) : LitAt(s, i, sep)}
    IN IF at = {} THEN 0 ELSE Min(at)

\* variant of Split1 that splits at the last occurrence: s.rsplit(sep, 1)
SplitLast(s, sep) ==
    LET at == {i \in 1..Len(s) : LitAt(s, i, sep)}
    IN IF at = {} THEN <<s>>
       ELSE <<SubSeq(s, 1, Max(at) - 1), SubSeq(s, Max(at) + Len(sep), Len(s))>>

\* s.split(sep, 1)
Split1(s, sep) ==
    LET i == Find(s, sep)
    IN IF i = 0 THEN <<s>>
       ELSE <<SubSeq(s, 1, i - 1), SubSeq(s, i + Len(sep), Len(s))>>

\* a variant that pads nothing
PadNothing(r) == r

\* while len(final_result) < 4: final_result += (None,)
RECURSIVE Pad(_)
Pad(r) == IF Len(r) < 4 THEN Pad(Append(r, None)) ELSE r

\* a variant of the body that cuts every captured group at its first "->"
CleanEveryGroup(result, key) ==
    Append(Pad([i \in DOMAIN result |->
                   IF Len(Split1(result[i], <<"-", ">">>)) > 1
                   THEN Split1(result[i], <<"-", ">">>)[2]
                   ELSE result[i]]), key)

\* the body of the loop of run_through_regexes once regex key has matched,
\* result being list(result.groups()), the local final_result
Clean(result, key) ==
    IF Len(result) >= 3
    THEN LET rest == Split1(result[2], <<"-", ">">>)
             cleaned == IF Len(rest) > 1
                        THEN [result EXCEPT ![2] = rest[2]]
                        ELSE result
         IN Append(Pad(cleaned), key)
    ELSE <<"ValueError">>

Normalize(groups, key) == CHOOSE r \in {Clean(g, key) : g \in {groups}} : TRUE

\* the loop over regexes.items(), from the k-th entry on
RECURSIVE RunFrom(_, _, _)
RunFrom(regexes, line, k) ==
    IF k > Len(regexes) THEN <<EmptyStr, EmptyStr, EmptyStr, EmptyStr>>
    ELSE CHOOSE r \in
            { IF m = Fail THEN RunFrom(regexes, line, k + 1)
              ELSE Normalize(Groups(regexes[k].regex, line, m), regexes[k].key) :
                  m \in {Match(regexes[k].regex, line)} } : TRUE

\* variant of run_through_regexes that raises ValueError for a line no
\* pattern matches
run_through_regexes_strict(regexes, line) ==
    CHOOSE r \in { IF x = <<EmptyStr, EmptyStr, EmptyStr, EmptyStr>>
                   THEN <<"ValueError">> ELSE x :
                       x \in {RunFrom(regexes, line, 1)} } : TRUE

run_through_regexes(regexes, line) == RunFrom(regexes, line, 1)

----------------------------------------------------------------------------
(* Trace.__init__ *)

\* how the call _exec(["ltrace"] + ltrace_flags + command) can end: it returns
\* the triple of communicate, communicate times out (the process group is
\* killed and TimeoutExpired raised again), or Popen finds no ltrace to run
ExecOutcomes == { "returned", "TimeoutExpired", "OSError" }

\* variant of Caught for a constructor without the try statement
CaughtNothing(e) == FALSE

\* except subprocess.TimeoutExpired: pass
Caught(e) == e = "TimeoutExpired"

\* parse_arbitrary(trace_line, regex): the groups of the match, or None
parse_arbitrary(line, regex) ==
    LET m == Match(regex, line)
    IN IF m = Fail THEN None ELSE Groups(regex, line, m)

\* ([0-9]+)\s*.   the pattern Trace.__init__ applies to the first line
first_line_regex == << Group(Plus(Digit), 1), Star(Space), One(Dot) >>

EmptyDict == [p \in {} |-> <<>>]

\* variant of DictAppend that inserts the record at the front
DictPrepend(d, pid, rec) ==
    [p \in DOMAIN d \cup {pid} |->
        IF p = pid
        THEN <<rec>> \o (IF p \in DOMAIN d THEN d[p] ELSE <<>>)
        ELSE d[p]]

\* self.process_log[pid].append(rec) on a defaultdict(list)
DictAppend(d, pid, rec) ==
    [p \in DOMAIN d \cup {pid} |->
        IF p = pid
        THEN Append(IF p \in DOMAIN d THEN d[p] ELSE <<>>, rec)
        ELSE d[p]]

NotCalled == <<"NotCalled">>
NoQuery == [fn |-> "none", pid |-> <<>>, match |-> <<>>]
NoReturn == [t |-> "NotCalled", v |-> 0]

\* variant of NewProcessLog for a process_log that is an attribute of the
\* class, shared by its objects
KeepProcessLog(prev) == prev

\* variant of NewLines for a flat list that is an attribute of the class
KeepLines(prev) == prev

\* self.lines = [] and self.process_log = defaultdict(list): each Trace gets
\* fresh containers, whatever the Trace constructed before it (prev) holds
NewLines(prev) == <<>>
NewProcessLog(prev) == EmptyDict

\* variant of Skip that tests the length only
SkipShort(r) == Len(r) < 4

\* if len(parsed_line) < 4 or not parsed_line[0]: continue
Skip(r) == Len(r) < 4 \/ r[1] = EmptyStr

\* an exception leaves the constructor: no Trace object is produced
ConstructorRaises ==
    /\ pc' = "raised"
    /\ UNCHANGED built

\* lines 267-281: read the log, reset the fields, check the first line
ReadLog ==
    /\ split_lines' = log_file
    /\ lines' = NewLines(lines)
    /\ process_log' = NewProcessLog(process_log)
    /\ parsed_line' = IF Len(log_file) > 1
                      THEN parse_arbitrary(log_file[1], first_line_regex)
                      ELSE NotCalled
    /\ IF Len(log_file) > 1
       THEN IF parse_arbitrary(log_file[1], first_line_regex) # None
            THEN /\ first_process' = parse_arbitrary(log_file[1], first_line_regex)[1]
                 /\ pc' = "loop"
                 /\ built' = built
            ELSE /\ first_process' = None
                 /\ ConstructorRaises
       ELSE /\ first_process' = None
            /\ pc' = "loop"
            /\ built' = built

\* lines 260-281: run ltrace, then read the log it wrote
TraceInit ==
    /\ pc \in {"new", "done", "raised"}
    /\ Len(built) < MaxTraces
    /\ \E e \in ExecOutcomes :
          /\ run' = e
          /\ IF e = "returned" \/ Caught(e)
             THEN ReadLog
             ELSE /\ ConstructorRaises
                  /\ split_lines' = <<>>
                  /\ lines' = <<>>
                  /\ process_log' = EmptyDict
                  /\ parsed_line' = NotCalled
                  /\ first_process' = None
    /\ idx' = 1
    /\ query' = NoQuery
    /\ ret' = NoReturn
    /\ UNCHANGED <<log_file, trace_line, final_result, helperVars>>

\* lines 283-289: one iteration of the for loop
TraceLoop ==
    /\ pc = "loop"
    /\ idx <= Len(split_lines)
    /\ \E r \in {run_through_regexes(regex_dict, split_lines[idx])} :
          /\ parsed_line' = r
          /\ IF r = <<"ValueError">>
             THEN /\ ConstructorRaises
                  /\ UNCHANGED <<lines, process_log>>
             ELSE /\ UNCHANGED <<pc, built>>
                  /\ IF Skip(r)
                     THEN UNCHANGED <<lines, process_log>>
                     ELSE /\ lines' = Append(lines, r)
                          /\ process_log' =
                                DictAppend(process_log, r[1], SubSeq(r, 2, Len(r)))
    /\ idx' = idx + 1
    /\ UNCHANGED <<log_file, split_lines, first_process, query, ret,
                   trace_line, final_result, run, helperVars>>

\* the loop is exhausted: the constructor returns the Trace
TraceReturn ==
    /\ pc = "loop"
    /\ idx > Len(split_lines)
    /\ pc' = "done"
    /\ built' = Append(built, [raised |-> FALSE, split_lines |-> split_lines,
                               lines |-> lines, process_log |-> process_log])
    /\ UNCHANGED <<log_file, split_lines, idx, parsed_line, lines, process_log,
                   first_process, query, ret, trace_line, final_result, run,
                   helperVars>>

----------------------------------------------------------------------------
(* The queries *)

Contains(s, sub) == Find(s, sub) # 0

Exited == <<"e", "x", "i", "t", "e", "d">>

DigitValue(ch) ==
    CASE ch = "0" -> 0 [] ch = "1" -> 1 [] ch = "2" -> 2 [] ch = "3" -> 3
      [] ch = "4" -> 4 [] ch = "5" -> 5 [] ch = "6" -> 6 [] ch = "7" -> 7
      [] ch = "8" -> 8 [] OTHER -> 9

RECURSIVE Decimal(_)
Decimal(ds) ==
    IF ds = <<>> THEN 0
    ELSE 10 * Decimal(SubSeq(ds, 1, Len(ds) - 1)) + DigitValue(ds[Len(ds)])

IsSpace(ch) == InClass(ch, Space)

\* s.split()[-1]: the last run of non-blank characters; <<>> when s is blank
\* (the list is empty and [-1] raises IndexError)
LastToken(s) ==
    LET solid == {i \in 1..Len(s) : ~IsSpace(s[i])}
    IN IF solid = {} THEN <<>>
       ELSE LET e == Max(solid)
                blanks == {i \in 1..e : IsSpace(s[i])}
                b == IF blanks = {} THEN 1 ELSE Max(blanks) + 1
            IN SubSeq(s, b, e)

IntReturn(n) == [t |-> "int", v |-> n]
NoneReturn == [t |-> "None", v |-> 0]
Raised(e) == [t |-> e, v |-> 0]
ListReturn(l) == [t |-> "list", v |-> l]

\* int(tok), for a token without blanks
ToInt(tok) ==
    LET signed == tok # <<>> /\ tok[1] \in {"-", "+"}
        ds == IF signed THEN Tail(tok) ELSE tok
    IN IF ds # <<>> /\ \A i \in 1..Len(ds) : InClass(ds[i], Digit)
       THEN IntReturn(IF signed /\ tok[1] = "-" THEN 0 - Decimal(ds) ELSE Decimal(ds))
       ELSE Raised("ValueError")

\* int(calls[1].split()[-1])
StatusOf(calls) ==
    IF LastToken(calls[2]) = <<>> THEN Raised("IndexError")
    ELSE ToInt(LastToken(calls[2]))

\* Trace.get_status(pid) on process log d
get_status(d, pid) ==
    IF pid \notin DOMAIN d THEN NoneReturn
    ELSE LET hits == {i \in 1..Len(d[pid]) : Contains(d[pid][i][1], Exited)}
         IN IF hits = {} THEN NoneReturn ELSE StatusOf(d[pid][Min(hits)])

\* variant of Matching that keeps the calls whose name contains match
RECURSIVE MatchingSubstring(_, _)
MatchingSubstring(calls, match) ==
    IF calls = <<>> THEN <<>>
    ELSE IF Contains(Head(calls)[1], match)
         THEN <<Head(calls)>> \o MatchingSubstring(Tail(calls), match)
         ELSE MatchingSubstring(Tail(calls), match)

\* [call for call in calls if call[0] == match]
RECURSIVE Matching(_, _)
Matching(calls, match) ==
    IF calls = <<>> THEN <<>>
    ELSE IF Head(calls)[1] = match
         THEN <<Head(calls)>> \o Matching(Tail(calls), match)
         ELSE Matching(Tail(calls), match)

\* variant of lines_for_pid that looks the pid up in a plain dict
lines_for_pid_plain(d, pid, match) ==
    IF pid \notin DOMAIN d THEN Raised("KeyError")
    ELSE IF match = EmptyStr THEN ListReturn(d[pid])
    ELSE ListReturn(Matching(d[pid], match))

\* Trace.lines_for_pid(pid, match) on process log d
lines_for_pid(d, pid, match) ==
    IF pid \notin DOMAIN d THEN ListReturn(<<>>)
    ELSE IF match = EmptyStr THEN ListReturn(d[pid])
    ELSE ListReturn(Matching(d[pid], match))

\* the pids and call names the queries are made with; pid 9 is in no line
QueryPids == { <<"1">>, <<"2">>, <<"9">> }
QueryMatches == { EmptyStr, <<"f">>, Exited }

\* a variant of the test that indexes the defaultdict, self.process_log[pid],
\* which makes an empty bucket for a pid it does not hold
LookedUpByIndex(d, pid) ==
    [p \in DOMAIN d \cup {pid} |-> IF p \in DOMAIN d THEN d[p] ELSE <<>>]

\* process_log after the test "pid not in self.process_log" of both queries:
\* a membership test makes no bucket
LookedUp(d, pid) == d

GetStatus(pid) ==
    /\ pc = "done"
    /\ query' = [fn |-> "get_status", pid |-> pid, match |-> EmptyStr]
    /\ ret' = get_status(process_log, pid)
    /\ process_log' = LookedUp(process_log, pid)
    /\ UNCHANGED <<log_file, pc, split_lines, idx, parsed_line, lines,
                   first_process, built, trace_line, final_result, run, helperVars>>

LinesForPid(pid, match) ==
    /\ pc = "done"
    /\ query' = [fn |-> "lines_for_pid", pid |-> pid, match |-> match]
    /\ ret' = lines_for_pid(process_log, pid, match)
    /\ process_log' = LookedUp(process_log, pid)
    /\ UNCHANGED <<log_file, pc, split_lines, idx, parsed_line, lines,
                   first_process, built, trace_line, final_result, run, helperVars>>

----------------------------------------------------------------------------
(* Input lines *)

\* "1 f(a) = 3"
LineCall1 == <<"1", " ", "f", "(", "a", ")", " ", "=", " ", "3">>

\* "2 f(a) = 3"
LineCall2 == <<"2", " ", "f", "(", "a", ")", " ", "=", " ", "3">>

\* "1 +++ exited (status 1) +++"
LineExit1 == <<"1", " ", "+", "+", "+", " ", "e", "x", "i", "t", "e", "d", " ", "(", "s", "t", "a", "t", "u", "s", " ", "1", ")", " ", "+", "+", "+">>

\* "2 +++ exited (status 0) +++"
LineExit2 == <<"2", " ", "+", "+", "+", " ", "e", "x", "i", "t", "e", "d", " ", "(", "s", "t", "a", "t", "u", "s", " ", "0", ")", " ", "+", "+", "+">>

\* "1 exited(7) = 0"
LineCallExited == <<"1", " ", "e", "x", "i", "t", "e", "d", "(", "7", ")", " ", "=", " ", "0">>

\* "1 x->g(a->b) = 3"
LineArrow == <<"1", " ", "x", "-", ">", "g", "(", "a", "-", ">", "b", ")", " ", "=", " ", "3">>

\* ""
LineEmpty == <<>>

\* "1 f(a <unfinished ...>"
LineUnfinished == <<"1", " ", "f", "(", "a", " ", "<", "u", "n", "f", "i", "n", "i", "s", "h", "e", "d", " ", ".", ".", ".", ">">>

\* "1 <... f resumed> ) = 3"
LineResumed == <<"1", " ", "<", ".", ".", ".", " ", "f", " ", "r", "e", "s", "u", "m", "e", "d", ">", " ", ")", " ", "=", " ", "3">>

\* "2 --- SIGPIPE (Broken pipe) ---"
LineSignal == <<"2", " ", "-", "-", "-", " ", "S", "I", "G", "P", "I", "P", "E", " ", "(", "B", "r", "o", "k", "e", "n", " ", "p", "i", "p", "e", ")", " ", "-", "-", "-">>

\* "1 exit(0 <no return ...>"
LineNoReturn == <<"1", " ", "e", "x", "i", "t", "(", "0", " ", "<", "n", "o", " ", "r", "e", "t", "u", "r", "n", " ", ".", ".", ".", ">">>

\* "f(a) = 3"
LineProse == <<"f", "(", "a", ")", " ", "=", " ", "3">>

\* "1 f(a) = (b) +"
LineCallSpecial == <<"1", " ", "f", "(", "a", ")", " ", "=", " ", "(", "b", ")", " ", "+">>

\* "1 <... f resumed> (<unfinished = 3"
LineResumedUnfinished == <<"1", " ", "<", ".", ".", ".", " ", "f", " ", "r", "e", "s", "u", "m", "e", "d", ">", " ", "(", "<", "u", "n", "f", "i", "n", "i", "s", "h", "e", "d", " ", "=", " ", "3">>

\* "1 f(<no return ...>) = 3"
LineNoReturnCall == <<"1", " ", "f", "(", "<", "n", "o", " ", "r", "e", "t", "u", "r", "n", " ", ".", ".", ".", ">", ")", " ", "=", " ", "3">>

\* "1 f(<no return <unfinished"
LineUnfinishedNoReturn == <<"1", " ", "f", "(", "<", "n", "o", " ", "r", "e", "t", "u", "r", "n", " ", "<", "u", "n", "f", "i", "n", "i", "s", "h", "e", "d">>

\* "12f(a) = 3"
LineNoBlank == <<"1", "2", "f", "(", "a", ")", " ", "=", " ", "3">>

\* "1  f (a)  =  3 "
LineBlanks == <<"1", " ", " ", "f", " ", "(", "a", ")", " ", " ", "=", " ", " ", "3", " ">>

\* "1 f(g(a), b) = 3"
LineNested == <<"1", " ", "f", "(", "g", "(", "a", ")", ",", " ", "b", ")", " ", "=", " ", "3">>

\* "1 a->b->f(x->y) = 3"
LineArrows == <<"1", " ", "a", "-", ">", "b", "-", ">", "f", "(", "x", "-", ">", "y", ")", " ", "=", " ", "3">>

\* "1 <... f resumed> (<unfinished) = 3"
LineThreeKinds == <<"1", " ", "<", ".", ".", ".", " ", "f", " ", "r", "e", "s", "u", "m", "e", "d", ">", " ", "(", "<", "u", "n", "f", "i", "n", "i", "s", "h", "e", "d", ")", " ", "=", " ", "3">>

\* "x = 3f(a) = 3"
LineLatePid == <<"x", " ", "=", " ", "3", "f", "(", "a", ")", " ", "=", " ", "3">>

\* "f(a) = 3 +(b) +"
LineLatePidSpecial == <<"f", "(", "a", ")", " ", "=", " ", "3", " ", "+", "(", "b", ")", " ", "+">>

\* the lines a log file is made of: calls of two processes, an exit, a call
\* of a function named exited, a signal, a blank line and a line without pid
LogLines ==
    { LineCall1, LineExit1, LineCallExited, LineSignal, LineEmpty, LineProse }

Logs == UNION {[1..n -> LogLines] : n \in 0..MaxLines}

RECURSIVE Flatten(_)
Flatten(ss) == IF ss = <<>> THEN <<>> ELSE Head(ss) \o Flatten(Tail(ss))

\* the pieces a classifier input line is made of: a pid, then text that puts
\* the separators of the patterns in every order
LinePid == <<"1", "2", " ">>

Chunks ==
    { <<"f", "(", "a">>, <<")">>, <<" ", "=", " ", "3">>, <<"-", ">">>,
      <<" ", "+">>,
      <<"<", "u", "n", "f", "i", "n", "i", "s", "h", "e", "d">>,
      <<"<", ".", ".", ".", " ", "f", " ", "r", "e", "s", "u", "m", "e", "d", ">">> }

ChunkSeqs == UNION {[1..n -> Chunks] : n \in 0..MaxChunks}

ChunkLines == {LinePid \o Flatten(cs) : cs \in ChunkSeqs}

ClassifierLines ==
    ChunkLines \cup LogLines
    \cup { LineCall2, LineExit2, LineArrow, LineUnfinished, LineResumed, LineNoReturn,
           LineCallSpecial, LineResumedUnfinished, LineNoReturnCall,
           LineUnfinishedNoReturn, LineNoBlank, LineBlanks, LineNested, LineArrows,
           LineThreeKinds, LineLatePid, LineLatePidSpecial }

----------------------------------------------------------------------------
(* Spec: a log file on disk, Trace objects constructed from it and queried *)

Init ==
    /\ log_file \in Logs
    /\ pc = "new"
    /\ split_lines = <<>>
    /\ idx = 0
    /\ parsed_line = NotCalled
    /\ lines = <<>>
    /\ process_log = EmptyDict
    /\ first_process = None
    /\ built = <<>>
    /\ query = NoQuery
    /\ ret = NoReturn
    /\ trace_line = <<>>
    /\ final_result = NotCalled
    /\ run = "none"
    /\ HelpersIdle

Next ==
    \/ TraceInit
    \/ TraceLoop
    \/ TraceReturn
    \/ \E pid \in QueryPids : GetStatus(pid)
    \/ \E pid \in QueryPids, match \in QueryMatches : LinesForPid(pid, match)

Spec == Init /\ [][Next]_vars

----------------------------------------------------------------------------
(* SpecClassifier: a direct call run_through_regexes(regex_dict, trace_line) *)

InitClassifier ==
    /\ trace_line \in ClassifierLines
    /\ final_result = NotCalled
    /\ log_file = <<>>
    /\ pc = "new"
    /\ split_lines = <<>>
    /\ idx = 0
    /\ parsed_line = NotCalled
    /\ lines = <<>>
    /\ process_log = EmptyDict
    /\ first_process = None
    /\ built = <<>>
    /\ query = NoQuery
    /\ ret = NoReturn
    /\ run = "none"
    /\ HelpersIdle

Classify ==
    /\ final_result = NotCalled
    /\ final_result' = run_through_regexes(regex_dict, trace_line)
    /\ UNCHANGED <<log_file, pc, split_lines, idx, parsed_line, lines, process_log,
                   first_process, built, query, ret, trace_line, run, helperVars>>

NextClassifier == Classify

SpecClassifier == InitClassifier /\ [][NextClassifier]_vars

----------------------------------------------------------------------------
(* Vocabulary of the properties *)

Arrow == <<"-", ">">>
Empty4 == <<EmptyStr, EmptyStr, EmptyStr, EmptyStr>>

\* the order in which the patterns are to be tried
KindOrder == <<"resumed", "unfinished", "no_return", "special", "function_call">>

PatternOf(kind) ==
    CASE kind = "resumed" -> resumed
      [] kind = "unfinished" -> unfinished
      [] kind = "no_return" -> no_return
      [] kind = "special" -> special
      [] OTHER -> function_call

Matches(kind, line) == Match(PatternOf(kind), line) # Fail

\* the places in KindOrder of the patterns that match line
MatchingKinds(line) == {k \in 1..Len(KindOrder) : Matches(KindOrder[k], line)}

\* what the pattern of kind captures in line
Captured(kind, line) == Groups(PatternOf(kind), line, Match(PatternOf(kind), line))

IsSuffix(t, s) == Len(t) <= Len(s) /\ t = SubSeq(s, Len(s) - Len(t) + 1, Len(s))

\* the classifier's result for each line a log can hold
Classified == [l \in LogLines |-> run_through_regexes(regex_dict, l)]

\* the lines of a log that no pattern matches
NoMatchLines == {l \in LogLines : MatchingKinds(l) = {}}

Parsing == pc \in {"loop", "done"}

\* the lines of the log read so far
Seen == 1..(idx - 1)

Asked(fn) == pc = "done" /\ query.fn = fn

----------------------------------------------------------------------------
(* C1 *)

\* trace_line is digits, a blank, name, "(", args, ") = " and retval, with the
\* digits ending at d, the "(" at p and the ")" at q
CallForm(s, d, p, q) ==
    /\ \A i \in 1..d : InClass(s[i], Digit)
    /\ d + 1 < p
    /\ s[d + 1] = " "
    /\ s[p] = "("
    /\ p < q
    /\ LitAt(s, q, <<")", " ", "=", " ">>)
    /\ q + 4 <= Len(s)

\* name is a call name: it has no "(" and no "->" and starts with no blank
CallName(name) ==
    /\ \A i \in 1..Len(name) : name[i] # "("
    /\ ~Contains(name, Arrow)
    /\ name = <<>> \/ ~IsSpace(name[1])

\* retval is a value: it is not empty, has no ")" and starts with no blank
CallValue(retval) ==
    /\ retval # <<>>
    /\ \A i \in 1..Len(retval) : retval[i] # ")"
    /\ ~IsSpace(retval[1])

CompletedCalls(s) ==
    {<<d, p, q>> \in (1..Len(s)) \X {p \in 1..Len(s) : s[p] = "("}
                     \X {q \in 1..Len(s) : s[q] = ")"} :
        /\ CallForm(s, d, p, q)
        /\ CallName(SubSeq(s, d + 2, p - 1))
        /\ CallValue(SubSeq(s, q + 4, Len(s)))}

NoEarlierPattern(s) == \A k \in 1..4 : ~Matches(KindOrder[k], s)

\* C1: a completed call "<digits> <name>(<args>) = <retval>" (name a call
\* name, retval a value) that none of the resumed, unfinished, no_return and
\* special patterns matches is classified as the 5-element record of its
\* digits, its name, its args text, its retval and the kind function_call.
C1_CompletedCall ==
    final_result # NotCalled =>
        \A c \in CompletedCalls(trace_line) :
            NoEarlierPattern(trace_line) =>
                final_result = << SubSeq(trace_line, 1, c[1]),
                                  SubSeq(trace_line, c[1] + 2, c[2] - 1),
                                  SubSeq(trace_line, c[2] + 1, c[3] - 1),
                                  SubSeq(trace_line, c[3] + 4, Len(trace_line)),
                                  "function_call" >>

\* a completed call with a name and with brackets inside its args has been
\* classified
C1_Witness ==
    /\ final_result # NotCalled
    /\ NoEarlierPattern(trace_line)
    /\ \E c \in CompletedCalls(trace_line) :
          /\ c[1] + 2 < c[2]
          /\ \E i \in (c[2] + 1)..(c[3] - 1) : trace_line[i] \in {"(", ")"}

----------------------------------------------------------------------------
(* C2 *)

\* C2: the kind of the result is the first kind, in the order resumed,
\* unfinished, no_return, special, function_call, whose pattern matches the
\* line, and the fields of the result are what that pattern captures (the
\* second one possibly cut at its start, the fourth None when the pattern has
\* three groups).
C2_FirstMatchWins ==
    final_result # NotCalled =>
        \A K \in {MatchingKinds(trace_line)} :
            K # {} =>
                \A g \in {Captured(KindOrder[Min(K)], trace_line)} :
                    /\ Len(final_result) = 5
                    /\ final_result[5] = KindOrder[Min(K)]
                    /\ final_result[1] = g[1]
                    /\ IsSuffix(final_result[2], g[2])
                    /\ final_result[3] = g[3]
                    /\ final_result[4] = IF Len(g) >= 4 THEN g[4] ELSE None

\* a line that three of the patterns match has been classified
C2_Witness ==
    /\ final_result # NotCalled
    /\ Cardinality(MatchingKinds(trace_line)) >= 3

----------------------------------------------------------------------------
(* C3 *)

RECURSIVE SumLen(_, _)
SumLen(d, keys) ==
    IF keys = {} THEN 0
    ELSE LET k == CHOOSE x \in keys : TRUE
         IN Len(d[k]) + SumLen(d, keys \ {k})

\* C3: for a line that no pattern matches the classifier returns four empty
\* strings, and the line leaves no record: the flat list and the buckets of
\* process_log hold one record for each line read that some pattern matches.
C3_NoMatchNoRecord ==
    Parsing =>
        /\ idx >= 2 /\ split_lines[idx - 1] \in NoMatchLines => parsed_line = Empty4
        /\ Len(lines) = Cardinality({i \in Seen : split_lines[i] \notin NoMatchLines})
        /\ SumLen(process_log, DOMAIN process_log) = Len(lines)

\* a log with a line no pattern matches and a line that left a record has
\* been parsed to its end
C3_Witness ==
    /\ pc = "done"
    /\ \E i \in Seen : split_lines[i] \in NoMatchLines
    /\ split_lines[idx - 1] \in NoMatchLines
    /\ lines # <<>>

----------------------------------------------------------------------------
(* C4 *)

DigitChar(n) == CHOOSE ch \in Digit.set : DigitValue(ch) = n

\* "<pid> +++ exited (status <n>) +++"
ExitLine(pid, n) ==
    pid \o <<" ", "+", "+", "+", " ">> \o Exited
        \o <<" ", "(", "s", "t", "a", "t", "u", "s", " ", DigitChar(n), ")",
             " ", "+", "+", "+">>

\* C4: when the log holds the line "<pid> +++ exited (status N) +++",
\* get_status(pid) returns N.
C4_ExitStatus ==
    Asked("get_status") =>
        \A n \in 0..9 :
            (\E i \in DOMAIN split_lines : split_lines[i] = ExitLine(query.pid, n))
                => ret.t = "int" /\ ret.v = n

----------------------------------------------------------------------------
(* C5 *)

\* s.strip()
Strip(s) ==
    LET solid == {i \in 1..Len(s) : ~IsSpace(s[i])}
    IN IF solid = {} THEN <<>> ELSE SubSeq(s, Min(solid), Max(solid))

\* pid's history holds the record of an exit: kind special, call name exited
HasExitRecord(d, pid) ==
    /\ pid \in DOMAIN d
    /\ \E i \in 1..Len(d[pid]) :
          d[pid][i][4] = "special" /\ Strip(d[pid][i][1]) = Exited

\* C5: when pid is unknown or its history holds no special record named
\* exited, get_status(pid) returns None and raises nothing.
C5_NoExitNoStatus ==
    Asked("get_status") /\ ~HasExitRecord(process_log, query.pid) => ret.t = "None"

----------------------------------------------------------------------------
(* C6 *)

\* C6: for a known pid, lines_for_pid(pid, match) returns the records of the
\* pid's history whose call name equals match, in their order, and the whole
\* history when match is empty.
C6_LiteralMatch ==
    Asked("lines_for_pid") /\ query.pid \in DOMAIN process_log =>
        /\ ret.t = "list"
        /\ ret.v = IF query.match = EmptyStr
                   THEN process_log[query.pid]
                   ELSE SelectSeq(process_log[query.pid],
                                  LAMBDA call : call[1] = query.match)

\* match is the name of one record of the history and only a part of the name
\* of another, and the query returned the first without the second
C6_Witness ==
    /\ Asked("lines_for_pid")
    /\ query.pid \in DOMAIN process_log
    /\ query.match # EmptyStr
    /\ \E i, j \in 1..Len(process_log[query.pid]) :
          /\ process_log[query.pid][i][1] = query.match
          /\ process_log[query.pid][j][1] # query.match
          /\ Contains(process_log[query.pid][j][1], query.match)
    /\ Len(ret.v) >= 1

----------------------------------------------------------------------------
(* C7 *)

\* the pids of the lines of the log that some pattern matches
PidsInLog ==
    {Classified[split_lines[i]][1] : i \in {j \in DOMAIN split_lines :
                                              split_lines[j] \notin NoMatchLines}}

\* C7: for a pid that is in no line of the log, lines_for_pid returns the
\* empty list, whatever match is, and raises nothing.
C7_UnknownPid ==
    Asked("lines_for_pid") /\ query.pid \notin PidsInLog =>
        ret.t = "list" /\ ret.v = <<>>

\* a trace that holds records has been asked, with a call name, for a pid
\* that is in no line
C7_Witness ==
    /\ Asked("lines_for_pid")
    /\ query.pid \notin PidsInLog
    /\ query.match # EmptyStr
    /\ lines # <<>>
    /\ ret.t = "list"

----------------------------------------------------------------------------
(* C8 *)

\* the lines read so far, up to line i, that yield a record for pid
LinesOf(pid, i) ==
    {j \in 1..i : split_lines[j] \notin NoMatchLines
                  /\ Classified[split_lines[j]][1] = pid}

\* C8: the records of a pid are in the order of its lines in the log: the
\* record of the n-th line of the pid is the n-th record that
\* lines_for_pid(pid) returns.
C8_LogOrder ==
    Parsing =>
        \A pid \in QueryPids :
            \A h \in {lines_for_pid(process_log, pid, EmptyStr).v} :
                /\ Len(h) = Cardinality(LinesOf(pid, idx - 1))
                /\ \A i \in LinesOf(pid, idx - 1) :
                      h[Cardinality(LinesOf(pid, i))] = Tail(Classified[split_lines[i]])

\* a log in which two different lines of one pid stand around a line of
\* another pid has been parsed
C8_Witness ==
    /\ pc = "done"
    /\ Len(lines) = 3
    /\ lines[1][1] = lines[3][1]
    /\ lines[1][1] # lines[2][1]
    /\ lines[1] # lines[3]

----------------------------------------------------------------------------
(* C9 *)

\* C9: two Trace objects constructed from the same raw log hold the same
\* process_log.
C9_SameLogSameTrace ==
    \A a, b \in DOMAIN built :
        /\ ~built[a].raised
        /\ ~built[b].raised
        /\ built[a].split_lines = built[b].split_lines
        => built[a].process_log = built[b].process_log

\* two Traces have been constructed from a log of two pids
C9_Witness ==
    /\ Len(built) >= 2
    /\ ~built[1].raised
    /\ ~built[2].raised
    /\ Cardinality(DOMAIN built[2].process_log) >= 2

----------------------------------------------------------------------------
(* C10 *)

\* t is what follows the first "->" of s
AfterFirstArrow(s, t) ==
    \E i \in 1..Len(s) :
        /\ LitAt(s, i, Arrow)
        /\ \A j \in 1..(i - 1) : ~LitAt(s, j, Arrow)
        /\ t = SubSeq(s, i + 2, Len(s))

\* the claim as written: when the args field (the third group) of a matching
\* line contains "->", the args stored in the record are the text after it
C10_ArgsStripped ==
    final_result # NotCalled /\ Len(final_result) = 5 =>
        \A g \in {Captured(final_result[5], trace_line)} :
            Contains(g[3], Arrow) => AfterFirstArrow(g[3], final_result[3])

\* C10 (amended): when the name field (the second group) of a matching line
\* contains "->", the name stored in the record is the text after the first
\* "->"; the args field is stored as it was captured.
C10_NameStripped ==
    final_result # NotCalled /\ Len(final_result) = 5 =>
        \A g \in {Captured(final_result[5], trace_line)} :
            /\ Contains(g[2], Arrow) => AfterFirstArrow(g[2], final_result[2])
            /\ final_result[3] = g[3]

\* a line with two "->" before its bracket and one inside has been classified
C10_Witness ==
    /\ final_result # NotCalled
    /\ Len(final_result) = 5
    /\ Contains(final_result[2], Arrow)
    /\ Contains(final_result[3], Arrow)

----------------------------------------------------------------------------
(* C11 *)

\* the leading process id of a line, None when the line has none
LeadingPid(line) ==
    CHOOSE r \in { IF g = None THEN None ELSE g[1] :
                       g \in {parse_arbitrary(line, first_line_regex)} } : TRUE

\* C11: a log whose first line has no leading process id makes the
\* constructor raise, whatever the number of its lines, and a Trace that has
\* been constructed holds the leading process id of the first line as
\* first_process.
C11_FirstLineChecked ==
    split_lines # <<>> =>
        /\ pc \in {"loop", "done"} => LeadingPid(split_lines[1]) # None
        /\ pc = "done" => first_process = LeadingPid(split_lines[1])

----------------------------------------------------------------------------
(* C12 *)

\* the first line check of the constructor does not raise for log
FirstLinePasses(log) == Len(log) > 1 => LeadingPid(log[1]) # None

\* the records of the lines of log that some pattern matches, in their order
RECURSIVE RecordsOf(_)
RecordsOf(log) ==
    IF log = <<>> THEN <<>>
    ELSE IF Head(log) \in NoMatchLines THEN RecordsOf(Tail(log))
    ELSE <<Classified[Head(log)]>> \o RecordsOf(Tail(log))

\* the process log that holds the records recs: for each pid the records of
\* the pid, in their order, without the pid
BucketsOf(recs) ==
    [pid \in {recs[i][1] : i \in DOMAIN recs} |->
        LET mine == SelectSeq(recs, LAMBDA r : r[1] = pid)
        IN [i \in DOMAIN mine |-> Tail(mine[i])]]

----------------------------------------------------------------------------
(* C13 *)

\* C13: when the first line of the log carries a pid (and ltrace could be
\* run), no line makes the constructor raise: at every step of the loop the
\* flat list holds the record of every line read so far that some pattern
\* matches, the lines no pattern matches being skipped.
C13_BadLinesSkipped ==
    /\ run \in {"returned", "TimeoutExpired"}
    /\ log_file # <<>>
    /\ LeadingPid(log_file[1]) # None
    => /\ pc \in {"loop", "done"}
       /\ lines = RecordsOf(SubSeq(split_lines, 1, idx - 1))

\* a log with a line no pattern matches between two lines that left their
\* records has been read to its end
C13_Witness ==
    /\ pc = "done"
    /\ Len(split_lines) = 3
    /\ split_lines[2] \in NoMatchLines
    /\ Len(lines) = 2

----------------------------------------------------------------------------
(* TestExecutable: setUpClass, setUp and the tests of simple_test.  A class   *)
(* is declared, unittest calls setUpClass once and then, for each test,     *)
(* setUp and the test method.                                               *)

\* the keyword parameters of _exec(args, *, input_=None, timeout=10, shell=False)
ExecKeywords == { "input_", "timeout", "shell" }

\* how a subprocess started by _exec can end: it exits with a status,
\* communicate times out, or Popen finds no file to run
Exits(out, err, status) ==
    [kind |-> "returned", stdout |-> out, stderr |-> err, returncode |-> status]
TimesOut == [kind |-> "TimeoutExpired"]
NotFound == [kind |-> "OSError"]

\* _exec(args, **kwargs) for a subprocess that ends as process: the triple
\* (stdout, stderr, returncode), or the exception raised.  A keyword that is
\* no parameter of _exec is a TypeError of the call itself.
_exec(kwargs, process) ==
    IF ~(kwargs \subseteq ExecKeywords) THEN [kind |-> "TypeError"] ELSE process

\* _compile passes no keyword on, _make passes timeout=60
_compile(process) == _exec({}, process)
_make(process) == _exec({"timeout"}, process)

\* TestExecutable._run_exec(args, **kwargs)
_run_exec(kwargs, process) == _exec(kwargs, process)

\* the classes: make or gcc, source_files a list, a str or left empty,
\* executable_name given or not
Classes ==
    [kind : {"class"}, make : BOOLEAN, source_files : {"empty", "str", "list"},
     executable_name : {"", "prog"}]

\* the runs of the compiler: silent success, warnings, an error with exit
\* status 1, a timeout, no compiler installed
CompilerRuns ==
    { Exits(<<>>, <<>>, 0), Exits(<<>>, <<"w">>, 0), Exits(<<>>, <<"e">>, 1),
      TimesOut, NotFound }

\* except subprocess.CalledProcessError
CompileFailed(result) == result.kind = "CalledProcessError"

\* setUpClass (lines 41-72)
SetUpClass ==
    /\ klass.kind = "class"
    /\ compiled = "unset"
    /\ class_error = "none"
    /\ \E process \in CompilerRuns :
          /\ compiler' = process
          /\ IF ~klass.make /\ klass.source_files = "empty"
             THEN /\ class_error' = "ValueError"
                  /\ UNCHANGED compiled
             ELSE \E result \in {IF klass.make THEN _make(process)
                                 ELSE _compile(process)} :
                     IF result.kind = "returned"
                     THEN /\ compiled' = "True"
                          /\ UNCHANGED class_error
                     ELSE IF CompileFailed(result)
                     THEN /\ compiled' = "False"
                          /\ UNCHANGED class_error
                     ELSE /\ class_error' = result.kind
                          /\ UNCHANGED compiled
    /\ UNCHANGED <<klass, test, program, outcome, outsideExecutable>>

\* s.rstrip()
rstrip(s) ==
    LET solid == {i \in 1..Len(s) : ~IsSpace(s[i])}
    IN IF solid = {} THEN <<>> ELSE SubSeq(s, 1, Max(solid))

Passed == [kind |-> "pass", by |-> "none"]
Failed(by) == [kind |-> "fail", by |-> by]
Error(e) == [kind |-> "error", by |-> e]

\* the assertions of the test function _t of simple_test (lines 132-156), on
\* the triple the executable returned
Compare(t, result) ==
    LET stdout == IF t.rstrip THEN rstrip(result.stdout) ELSE result.stdout
        stderr == IF t.rstrip THEN rstrip(result.stderr) ELSE result.stderr
        expected_stderr == IF t.rstrip /\ t.expected_stderr # None
                           THEN rstrip(t.expected_stderr) ELSE t.expected_stderr
        expected_stdout == IF t.rstrip /\ t.expected_stdout # None
                           THEN rstrip(t.expected_stdout) ELSE t.expected_stdout
    IN IF /\ expected_stderr # None
          /\ ~(t.stderr_relax /\ Contains(stdout, expected_stderr))
          /\ stderr # expected_stderr
       THEN Failed("stderr")
       ELSE IF expected_stdout # None /\ stdout # expected_stdout
       THEN Failed("stdout")
       ELSE IF t.expected_status # NoneReturn
               /\ IntReturn(result.returncode) # t.expected_status
       THEN Failed("status")
       ELSE Passed

\* the test function _t of simple_test: it passes input_, timeout and check
\* on to _run_exec
SimpleTest(t, process) ==
    CHOOSE o \in { IF result.kind = "returned" THEN Compare(t, result)
                   ELSE Error(result.kind) :
                       result \in {_run_exec({"input_", "timeout", "check"}, process)} } :
        TRUE

\* the tests of a class: a method with an empty body, and the functions
\* simple_test returns
SimpleTests ==
    [kind : {"simple_test"},
     expected_stdout : {None, <<"a">>},
     expected_stderr : {None, <<"e">>},
     expected_status : {NoneReturn, IntReturn(0)},
     rstrip : BOOLEAN, stderr_relax : BOOLEAN]

Tests == {[kind |-> "plain"]} \cup SimpleTests

\* what the executable under test does
Programs ==
    { Exits(out, err, status) :
        out \in {<<"a", " ">>, <<"e">>}, err \in {<<>>, <<"e">>},
        status \in {0, 1} }
    \cup {TimesOut}

\* setUp (lines 74-77): returns nothing when the class compiled
setUp == IF compiled = "True" THEN Passed ELSE Failed("setUp")

\* unittest runs one test of the class: setUp, then the test method
RunTest(t, process) ==
    /\ compiled # "unset"
    /\ test' = t
    /\ program' = process
    /\ outcome' = IF setUp # Passed THEN setUp
                  ELSE IF t.kind = "plain" THEN Passed
                  ELSE SimpleTest(t, process)
    /\ UNCHANGED <<klass, compiler, compiled, class_error, outsideExecutable>>

\* setUpClass raised: unittest reports the error and runs no test of the class
ClassNotRun(t) ==
    /\ class_error # "none"
    /\ test' = t
    /\ outcome' = Error(class_error)
    /\ UNCHANGED <<klass, compiler, compiled, class_error, program, outsideExecutable>>

TraceIdle ==
    /\ log_file = <<>>
    /\ pc = "new"
    /\ split_lines = <<>>
    /\ idx = 0
    /\ parsed_line = NotCalled
    /\ lines = <<>>
    /\ process_log = EmptyDict
    /\ first_process = None
    /\ built = <<>>
    /\ query = NoQuery
    /\ ret = NoReturn
    /\ trace_line = <<>>
    /\ final_result = NotCalled
    /\ run = "none"

InitExecutable ==
    /\ klass \in Classes
    /\ compiler = Nothing
    /\ compiled = "unset"
    /\ class_error = "none"
    /\ test = Nothing
    /\ program = Nothing
    /\ outcome = Nothing
    /\ TraceIdle
    /\ ExecutableAlone

NextExecutable ==
    \/ SetUpClass
    \/ \E t \in Tests, process \in Programs : RunTest(t, process)
    \/ \E t \in Tests : ClassNotRun(t)

SpecExecutable == InitExecutable /\ [][NextExecutable]_vars

----------------------------------------------------------------------------
(* C14 *)

\* C14: when the compiler (gcc or make) exits with a status other than 0,
\* the class is marked as not compiled, and setUp fails every test of the
\* class before its body runs.
C14_FailedCompileFailsTests ==
    compiler.kind = "returned" /\ compiler.returncode # 0 =>
        /\ compiled = "False"
        /\ test.kind # "none" => outcome = Failed("setUp")

----------------------------------------------------------------------------
(* C15 *)

\* the values the executable returned that a test of simple_test expects
\* otherwise, trailing blanks aside when rstrip is set
Differs(t, result) ==
    \/ /\ t.expected_stdout # None
       /\ IF t.rstrip THEN rstrip(t.expected_stdout) # rstrip(result.stdout)
          ELSE t.expected_stdout # result.stdout
    \/ /\ t.expected_stderr # None
       /\ IF t.rstrip THEN rstrip(t.expected_stderr) # rstrip(result.stderr)
          ELSE t.expected_stderr # result.stderr
       /\ ~(t.stderr_relax /\ Contains(IF t.rstrip THEN rstrip(result.stdout)
                                      ELSE result.stdout,
                                      IF t.rstrip THEN rstrip(t.expected_stderr)
                                      ELSE t.expected_stderr))
    \/ t.expected_status # NoneReturn /\ t.expected_status.v # result.returncode

\* C15: a test of simple_test whose executable runs to completion passes when
\* all three expectations are None, and with expectations it fails exactly
\* when an expected value differs from the actual one (and passes otherwise).
C15_SimpleTestCompares ==
    /\ test.kind = "simple_test"
    /\ compiled = "True"
    /\ program.kind = "returned"
    => /\ outcome.kind \in {"pass", "fail"}
       /\ outcome.kind = "fail" <=> Differs(test, program)

----------------------------------------------------------------------------
(* merge of two notebooks: notebook_helper/merger/__init__.py *)

\* the ids a cell can carry
CellIds == {"a", "b", "c"}

\* cells in a notebook
MaxCells == 3

\* a cell: its id and the notebook it was read from
Cell(id, n) == [id |-> id, notebook |-> n]

\* the notebooks of n with at most MaxCells cells; two cells may share an id
Notebooks(n) ==
    UNION { [1..len -> {Cell(id, n) : id \in CellIds}] : len \in 0..MaxCells }

IdsOf(notebook) == {notebook[k].id : k \in DOMAIN notebook}

\* nb2_ids.get(id, 0): the dict comprehension keeps the last index of an id
nb2_ids_get(id) ==
    IF id \in IdsOf(notebook2)
    THEN CHOOSE i \in DOMAIN notebook2 :
            /\ notebook2[i].id = id
            /\ \A j \in DOMAIN notebook2 : notebook2[j].id = id => j <= i
    ELSE 0

\* a variant that takes the matching cell of notebook2 alone
to_add_single(cell) ==
    IF nb2_ids_get(cell.id) = 0 THEN <<cell>> ELSE <<notebook2[nb2_ids_get(cell.id)]>>

\* notebook2.cells[: nb2_ids.get(cell.id, 0)] or [cell]
to_add(cell) ==
    IF nb2_ids_get(cell.id) = 0 THEN <<cell>> ELSE SubSeq(notebook2, 1, nb2_ids_get(cell.id))

\* the inner loop: the cells of adding not seen yet are appended and seen
RECURSIVE AddCells(_, _, _)
AddCells(adding, cells_, seen) ==
    IF adding = <<>> THEN [cells |-> cells_, seen |-> seen]
    ELSE IF Head(adding).id \notin seen
         THEN AddCells(Tail(adding), Append(cells_, Head(adding)), seen \cup {Head(adding).id})
         ELSE AddCells(Tail(adding), cells_, seen)

\* one pass of the loop over notebook1.cells
MergeNotebook1Cell ==
    /\ merge_at.loop = "notebook1"
    /\ merge_at.i <= Len(notebook1)
    /\ \E r \in {AddCells(to_add(notebook1[merge_at.i]), new_notebook, seen_ids)} :
          /\ new_notebook' = r.cells
          /\ seen_ids' = r.seen
    /\ merge_at' = [merge_at EXCEPT !.i = @ + 1]
    /\ UNCHANGED <<notebook1, notebook2, outsideMerge>>

\* the loop over notebook1.cells is exhausted
MergeNotebook1Done ==
    /\ merge_at.loop = "notebook1"
    /\ merge_at.i > Len(notebook1)
    /\ merge_at' = [loop |-> "notebook2", i |-> 1]
    /\ UNCHANGED <<notebook1, notebook2, new_notebook, seen_ids, outsideMerge>>

\* one pass of the loop over notebook2.cells
MergeNotebook2Cell ==
    /\ merge_at.loop = "notebook2"
    /\ merge_at.i <= Len(notebook2)
    /\ new_notebook' = IF notebook2[merge_at.i].id \notin seen_ids
                       THEN Append(new_notebook, notebook2[merge_at.i])
                       ELSE new_notebook
    /\ merge_at' = [merge_at EXCEPT !.i = @ + 1]
    /\ UNCHANGED <<notebook1, notebook2, seen_ids, outsideMerge>>

\* return new_notebook
MergeReturns ==
    /\ merge_at.loop = "notebook2"
    /\ merge_at.i > Len(notebook2)
    /\ merge_at' = [loop |-> "returned", i |-> 0]
    /\ UNCHANGED <<notebook1, notebook2, new_notebook, seen_ids, outsideMerge>>

\* merge is called with two loaded notebooks and stands before its first loop
InitMerge ==
    /\ notebook1 \in Notebooks(1)
    /\ notebook2 \in Notebooks(2)
    /\ new_notebook = <<>>
    /\ seen_ids = {}
    /\ merge_at = [loop |-> "notebook1", i |-> 1]
    /\ TraceIdle
    /\ MergeAlone

NextMerge ==
    \/ MergeNotebook1Cell
    \/ MergeNotebook1Done
    \/ MergeNotebook2Cell
    \/ MergeReturns

SpecMerge == InitMerge /\ [][NextMerge]_vars

UniqueIds(notebook) ==
    \A j, k \in DOMAIN notebook : notebook[j].id = notebook[k].id => j = k

Occurrences(cell, notebook) == Cardinality({k \in DOMAIN notebook : notebook[k] = cell})

IsOfNotebook2(cell) == cell.notebook = 2

\* C16: when the cell ids are unique within each notebook, the merged cells
\* hold the cells of notebook2 once each and in notebook2's order, hold once
\* each cell of notebook1 whose id notebook2 lacks, hold notebook2's cell for
\* a shared id, and hold no id twice.
C16_MergedCells ==
    /\ merge_at.loop = "returned"
    /\ UniqueIds(notebook1)
    /\ UniqueIds(notebook2)
    => /\ SelectSeq(new_notebook, IsOfNotebook2) = notebook2
       /\ \A k \in DOMAIN notebook1 :
             notebook1[k].id \notin IdsOf(notebook2)
             => Occurrences(notebook1[k], new_notebook) = 1
       /\ \A k \in DOMAIN new_notebook :
             new_notebook[k].id \in IdsOf(notebook2) => IsOfNotebook2(new_notebook[k])
       /\ UniqueIds(new_notebook)

\* a merge has returned for notebooks that share two ids in opposite orders,
\* the first notebook holding a cell of its own as well
C16_Witness ==
    /\ merge_at.loop = "returned"
    /\ UniqueIds(notebook1)
    /\ UniqueIds(notebook2)
    /\ \E i, j \in DOMAIN notebook1 : \E k, l \in DOMAIN notebook2 :
          /\ i < j /\ l < k
          /\ notebook1[i].id = notebook2[k].id
          /\ notebook1[j].id = notebook2[l].id
    /\ \E i \in DOMAIN notebook1 : notebook1[i].id \notin IdsOf(notebook2)
    /\ Len(new_notebook) = MaxCells

----------------------------------------------------------------------------
(* ResultsGrid.filter: python_helper/test_case_validation_fixture.py *)

\* test cases in a grid; a test case stands for its name
MaxTests == 2

TestNames == 1..MaxTests

\* the mocks the grid was built with, and a name it was not built with
MockNames == {"correct_function", "buggy_fails_0"}
FilterNames == MockNames \cup {"unknown"}

\* the grids __init__ can leave: every row has a result for every mock
Grids == UNION { [T -> [MockNames -> BOOLEAN]] : T \in SUBSET TestNames }

\* an argument left at its default None, and one passed
Omitted == [given |-> FALSE]
Given(names) == [given |-> TRUE, names |-> names]

\* x if x else set()
OrEmpty(arg) == IF arg.given THEN arg.names ELSE {}

\* the orders in which a set can be iterated
Orders(S) ==
    {o \in [1..Cardinality(S) -> S] : \A i, j \in DOMAIN o : o[i] = o[j] => i = j}

\* all(row[name] is want for name in order): stops at the first name whose
\* result differs, raises KeyError at a name the row has no result for
RECURSIVE AllAre(_, _, _)
AllAre(row, order, want) ==
    IF order = <<>> THEN "True"
    ELSE IF Head(order) \notin DOMAIN row THEN "KeyError"
    ELSE IF row[Head(order)] # want THEN "False"
    ELSE AllAre(row, Tail(order), want)

\* a variant that looks at must_pass alone
matches_must_pass(row, pass_order, fail_order) == AllAre(row, pass_order, TRUE)

\* ResultsRow.matches
matches(row, pass_order, fail_order) ==
    IF AllAre(row, pass_order, TRUE) = "True"
    THEN AllAre(row, fail_order, FALSE)
    ELSE AllAre(row, pass_order, TRUE)

\* the rows the set comprehension of filter evaluates matches on
Considered(exclusions) == DOMAIN grid \ OrEmpty(exclusions)

\* ResultsGrid.filter
Filter ==
    /\ asked = Nothing
    /\ \E must_pass, must_fail \in {Omitted} \cup {Given(S) : S \in SUBSET FilterNames} :
       \E exclusions \in {Omitted} \cup {Given(S) : S \in SUBSET TestNames} :
       \E pass_order \in Orders(OrEmpty(must_pass)) :
       \E fail_order \in Orders(OrEmpty(must_fail)) :
          /\ asked' = [must_pass |-> must_pass, must_fail |-> must_fail,
                       exclusions |-> exclusions]
          /\ filtered' =
                IF \E t \in Considered(exclusions) :
                      matches(grid[t], pass_order, fail_order) = "KeyError"
                THEN [kind |-> "KeyError"]
                ELSE [kind |-> "returned",
                      names |-> {t \in Considered(exclusions) :
                                    matches(grid[t], pass_order, fail_order) = "True"}]
    /\ UNCHANGED <<grid, outsideGrid>>

InitGrid ==
    /\ grid \in Grids
    /\ asked = Nothing
    /\ filtered = Nothing
    /\ TraceIdle
    /\ GridAlone

NextGrid ==
    \/ Filter

SpecGrid == InitGrid /\ [][NextGrid]_vars

\* the grid records this result of the test for the mock
Recorded(t, name, result) == name \in DOMAIN grid[t] /\ grid[t][name] = result

\* C17: a call of filter whose names are mocks of the grid returns, and what
\* filter returns is the set of the tests of the grid outside exclusions that
\* pass for every name of must_pass and fail for every name of must_fail, an
\* omitted argument leaving out its constraint.
C17_FilterSelects ==
    asked # Nothing
    => /\ OrEmpty(asked.must_pass) \cup OrEmpty(asked.must_fail) \subseteq MockNames
          => filtered.kind = "returned"
       /\ filtered.kind = "returned"
          => filtered.names =
                {t \in DOMAIN grid :
                    /\ asked.exclusions.given => t \notin asked.exclusions.names
                    /\ asked.must_pass.given
                       => \A name \in asked.must_pass.names : Recorded(t, name, TRUE)
                    /\ asked.must_fail.given
                       => \A name \in asked.must_fail.names : Recorded(t, name, FALSE)}

\* filter returned one test of two that pass one mock and fail the other, the
\* second test being excluded
C17_Witness ==
    /\ asked # Nothing
    /\ filtered.kind = "returned"
    /\ asked.must_pass = Given({"correct_function"})
    /\ asked.must_fail = Given({"buggy_fails_0"})
    /\ asked.exclusions.given
    /\ \E t, u \in DOMAIN grid :
          /\ t # u
          /\ grid[t] = grid[u]
          /\ u \in asked.exclusions.names
          /\ filtered.names = {t}

----------------------------------------------------------------------------
(* bound_timeout without signals: python_helper/timeout.py *)

\* the largest number of seconds a test is bounded by
MaxSeconds == 2

\* the exceptions a run of the function can raise besides a timeout
Errors == {"ValueError", "AssertionError"}

\* one run of the function: the seconds it takes and how it ends; a run that
\* hangs never ends
FunctionRuns ==
    [takes : 0..(MaxSeconds + 1), ends : {"returns", "hangs"} \cup Errors]

\* _Timeout(function, TimeoutError, error_message, seconds): the run is
\* abandoned with TimeoutError once it has lasted longer than seconds; a run
\* that ends just at the limit races with it
GuardedOutcomes(this) ==
    IF this.ends = "hangs" \/ this.takes > seconds THEN {"TimeoutError"}
    ELSE IF this.takes = seconds THEN {"TimeoutError", this.ends}
    ELSE {this.ends}

\* the try statement of wrapped_for_errors and the branch taken after it
GuardedRun ==
    /\ wrapped.kind = "called"
    /\ \E ended \in GuardedOutcomes(behaviour[1]) :
          /\ runs' = Append(runs, [guarded |-> TRUE, ended |-> ended])
          /\ wrapped' = IF ended = "TimeoutError" THEN [kind |-> "raised", error |-> "TimeoutError"]
                     ELSE IF ended \in Errors THEN [kind |-> "rerun_for_errors"]
                     ELSE [kind |-> "returned"]
    /\ UNCHANGED <<seconds, behaviour, outsideTimeout>>

\* function(*args, **kwargs) under rerun_for_errors: no limit applies
RerunForErrors ==
    /\ wrapped.kind = "rerun_for_errors"
    /\ runs' = Append(runs, [guarded |-> FALSE, ended |-> behaviour[2].ends])
    /\ wrapped' = IF behaviour[2].ends \in Errors
               THEN [kind |-> "raised", error |-> behaviour[2].ends]
               ELSE IF behaviour[2].ends = "hangs" THEN [kind |-> "hanging"]
               ELSE [kind |-> "returned"]
    /\ UNCHANGED <<seconds, behaviour, outsideTimeout>>

\* a decorated function is called; its runs are free to differ
InitTimeout ==
    /\ seconds \in 1..MaxSeconds
    /\ behaviour \in [1..2 -> FunctionRuns]
    /\ runs = <<>>
    /\ wrapped = [kind |-> "called"]
    /\ TraceIdle
    /\ TimeoutAlone

NextTimeout ==
    \/ GuardedRun
    \/ RerunForErrors

SpecTimeout == InitTimeout /\ [][NextTimeout]_vars

\* C18: when the guarded run timed out the call raises TimeoutError; when it
\* raised another exception the call raises that exception; in both cases
\* the call does not return normally.
C18_OriginalErrorRaised ==
    /\ wrapped.kind \in {"returned", "raised", "hanging"}
    /\ runs[1].ended # "returns"
    => /\ wrapped.kind # "returned"
       /\ runs[1].ended = "TimeoutError"
          => wrapped = [kind |-> "raised", error |-> "TimeoutError"]
       /\ runs[1].ended \in Errors
          => wrapped = [kind |-> "raised", error |-> runs[1].ended]

\* C30: the function is run at most once, under the timeout guard and never
\* outside it, and once the guarded run has ended the call has ended: it has
\* returned, or raised TimeoutError or the error of that run.
C30_RunOnceUnderGuard ==
    /\ Len(runs) <= 1
    /\ \A i \in DOMAIN runs : runs[i].guarded
    /\ runs # <<>>
       => \/ wrapped = [kind |-> "returned"] /\ runs[1].ended = "returns"
          \/ wrapped = [kind |-> "raised", error |-> runs[1].ended]

----------------------------------------------------------------------------
(* ASTParser.get_recursive: python_helper/code_properties.py *)

\* calls recorded in self._dependencies, over all functions
MaxCalls == 4

\* the names of functions and methods, in the order parse meets them; a name
\* that is no key of self._dependencies is a name defined elsewhere
ParsedNames == <<"f", "g", "h", "k">>

Names == {ParsedNames[i] : i \in DOMAIN ParsedNames}

CallsIn(deps) == {<<fn, called>> \in (DOMAIN deps) \X Names : called \in deps[fn]}

\* the dicts _update_dependencies can leave: name -> the names it calls
Dependencies ==
    {deps \in UNION { [K -> SUBSET Names] : K \in SUBSET Names } :
        Cardinality(CallsIn(deps)) <= MaxCalls}

\* the keys of a dict in the order of their insertion
KeysOf(deps) == SelectSeq(ParsedNames, LAMBDA fn : fn \in DOMAIN deps)

\* the for loop of get_dependencies: each function in turn gains, in place,
\* what the functions it called at that moment call
RECURSIVE PassOver(_, _)
PassOver(now, order) ==
    IF order = <<>> THEN now
    ELSE PassOver([now EXCEPT ![Head(order)] =
                      @ \cup UNION {now[called] : called \in @ \cap DOMAIN now}],
                  Tail(order))

\* a variant that takes the first pass for the last
SettledAtOnce(original, now) == TRUE

\* original == current
Settled(original, now) == original = now

\* the dict a call of get_dependencies starts from: current is None at first
Current == IF passes = 0 THEN dependencies ELSE current

\* the two loops of get_recursive over the dependencies it obtained
RecursiveIn(deps) == {fn \in DOMAIN deps : fn \in deps[fn]}
IndirectlyRecursiveIn(deps) ==
    {fn \in DOMAIN deps : \E called \in deps[fn] : called \in RecursiveIn(deps)}

\* get_recursive(indirect=False)
GetRecursiveDirect ==
    /\ recursive = Nothing
    /\ ~indirect
    /\ recursive' = [kind |-> "returned", names |-> RecursiveIn(dependencies)]
    /\ UNCHANGED <<dependencies, indirect, current, passes, outsideRecursive>>

\* a call of get_dependencies whose pass changed current: it calls itself
DependenciesPass ==
    /\ recursive = Nothing
    /\ indirect
    /\ \E now \in {PassOver(Current, KeysOf(Current))} :
          /\ ~Settled(Current, now)
          /\ current' = now
    /\ passes' = passes + 1
    /\ UNCHANGED <<dependencies, indirect, recursive, outsideRecursive>>

\* the call of get_dependencies that returns, and the rest of get_recursive
GetRecursiveIndirect ==
    /\ recursive = Nothing
    /\ indirect
    /\ \E now \in {PassOver(Current, KeysOf(Current))} :
          /\ Settled(Current, now)
          /\ current' = now
          /\ recursive' = [kind |-> "returned",
                           names |-> RecursiveIn(now) \cup IndirectlyRecursiveIn(now)]
    /\ UNCHANGED <<dependencies, indirect, passes, outsideRecursive>>

InitRecursive ==
    /\ dependencies \in Dependencies
    /\ indirect \in BOOLEAN
    /\ current = <<>>
    /\ passes = 0
    /\ recursive = Nothing
    /\ TraceIdle
    /\ RecursiveAlone

NextRecursive ==
    \/ GetRecursiveDirect
    \/ DependenciesPass
    \/ GetRecursiveIndirect

\* the interpreter runs the call on: a step that can be taken is taken
SpecRecursive == InitRecursive /\ [][NextRecursive]_vars /\ WF_vars(NextRecursive)

\* the names reached from fn by at most n calls and at least one
RECURSIVE Reached(_, _)
Reached(fn, n) ==
    IF fn \notin DOMAIN dependencies \/ n = 0 THEN {}
    ELSE dependencies[fn] \cup UNION {Reached(called, n - 1) : called \in dependencies[fn]}

Reaches(fn, other) == other \in Reached(fn, Len(ParsedNames))

OnCycle(fn) == Reaches(fn, fn)

\* C19: get_recursive returns; without indirect it returns the functions
\* that call themselves directly, with indirect the functions from which a
\* function on a call cycle is reachable, those on a cycle included.
C19_RecursiveFound ==
    /\ [](recursive # Nothing =>
            recursive.names =
                IF indirect
                THEN {fn \in DOMAIN dependencies :
                         \E c \in DOMAIN dependencies :
                            OnCycle(c) /\ (c = fn \/ Reaches(fn, c))}
                ELSE {fn \in DOMAIN dependencies : fn \in dependencies[fn]})
    /\ <>(recursive # Nothing)

\* get_recursive(indirect=True) returned, after more than one changing pass,
\* a function that is on no cycle and calls no function calling itself
C19_Witness ==
    /\ recursive # Nothing
    /\ indirect
    /\ passes >= 2
    /\ \E fn \in recursive.names :
          /\ ~OnCycle(fn)
          /\ \A called \in dependencies[fn] :
                called \in DOMAIN dependencies => called \notin dependencies[called]

----------------------------------------------------------------------------
(* run_cells over a notebook module: notebook_helper/importer/__init__.py *)

\* Cell (markdown and raw cells) and CodeCell
CellKinds == {"Cell", "CodeCell"}

\* what compile and exec of a code cell can raise: subclasses of Exception,
\* and SystemExit (a cell calling exit()), which derives from BaseException only
Exceptions == {"SyntaxError", "ValueError"}
BaseExceptions == Exceptions \cup {"SystemExit"}

\* a variant of the handler that lets every exception through
HandledNever(e) == FALSE

\* except Exception as e: ... else: traceback.print_exception(...)
Handled(e) == e \in Exceptions /\ ~raise_on_error

\* Cell.run: no-op
RunCell ==
    /\ escaped = "none"
    /\ cell_at \in DOMAIN cells
    /\ cells[cell_at] = "Cell"
    /\ executed' = Append(executed, [cell |-> cell_at, ended |-> "no-op"])
    /\ cell_at' = cell_at + 1
    /\ UNCHANGED <<cells, raise_on_error, escaped, outsideCells>>

\* CodeCell.run: the code ends normally or raises; what it raises depends on
\* the source and on what the cells before it left in the module
RunCodeCell ==
    /\ escaped = "none"
    /\ cell_at \in DOMAIN cells
    /\ cells[cell_at] = "CodeCell"
    /\ \E ended \in {"ok"} \cup BaseExceptions :
          /\ executed' = Append(executed, [cell |-> cell_at, ended |-> ended])
          /\ escaped' = IF ended \in BaseExceptions /\ ~Handled(ended) THEN ended ELSE "none"
    /\ cell_at' = cell_at + 1
    /\ UNCHANGED <<cells, raise_on_error, outsideCells>>

\* run_cells is called on a module with up to MaxCells cells
InitCells ==
    /\ cells \in UNION { [1..n -> CellKinds] : n \in 0..MaxCells }
    /\ raise_on_error \in BOOLEAN
    /\ executed = <<>>
    /\ cell_at = 1
    /\ escaped = "none"
    /\ TraceIdle
    /\ CellsAlone

NextCells ==
    \/ RunCell
    \/ RunCodeCell

SpecCells == InitCells /\ [][NextCells]_vars

\* run_cells has ended: an exception left it or its loop is exhausted
RunCellsEnded == escaped # "none" \/ cell_at > Len(cells)

\* the calls of cell.run that ended in an exception of the set
FailedWith(errors) == {k \in DOMAIN executed : executed[k].ended \in errors}

InNotebookOrder == \A k \in DOMAIN executed : executed[k].cell = k

FirstFailureRaised ==
    raise_on_error /\ FailedWith(BaseExceptions) # {}
    => /\ FailedWith(BaseExceptions) = {Len(executed)}
       /\ escaped = executed[Len(executed)].ended

\* C20 as stated: the cells run in notebook order; with raise_on_error the
\* first failing cell's exception is raised and no later cell runs; without
\* it no exception escapes and every cell is run.
C20_NoExceptionEscapes ==
    /\ InNotebookOrder
    /\ FirstFailureRaised
    /\ ~raise_on_error
       => /\ escaped = "none"
          /\ RunCellsEnded => Len(executed) = Len(cells)

\* C20, amended: the cells run in notebook order; with raise_on_error the
\* first failing cell's exception is raised and no later cell runs; without
\* it, as long as no cell raises an exception outside Exception, nothing
\* escapes and every cell is run; an exception outside Exception escapes
\* from the cell that raises it and no later cell runs.
C20_ExceptionsHandled ==
    /\ InNotebookOrder
    /\ FirstFailureRaised
    /\ ~raise_on_error /\ FailedWith(BaseExceptions \ Exceptions) = {}
       => /\ escaped = "none"
          /\ RunCellsEnded => Len(executed) = Len(cells)
    /\ ~raise_on_error /\ FailedWith(BaseExceptions \ Exceptions) # {}
       => /\ FailedWith(BaseExceptions \ Exceptions) = {Len(executed)}
          /\ escaped = executed[Len(executed)].ended

\* run_cells without raise_on_error has ended after a code cell that raised a
\* runtime error was followed by a cell that ran
C20_Witness ==
    /\ ~raise_on_error
    /\ RunCellsEnded
    /\ escaped = "none"
    /\ \E k \in FailedWith({"ValueError"}) : k < Len(executed) /\ executed[k + 1].ended = "ok"

----------------------------------------------------------------------------
(* C21 *)

\* the result of the classifier passes the test of the constructor loop and
\* is stored
Stored(r) == r # NotCalled /\ ~Skip(r)

IsPid(s) == s # None /\ Len(s) >= 1 /\ \A i \in DOMAIN s : InClass(s[i], Digit)

\* C21: a classifier result that Trace construction stores has five
\* elements: a pid of one or more decimal digits; a name, args and a return
\* value, the return value being None exactly for the kinds unfinished,
\* no_return and special; and a kind among the five. The entry of
\* process_log, the elements after the pid, has four elements.
C21_RecordShape ==
    Stored(final_result) =>
        /\ Len(final_result) = 5
        /\ IsPid(final_result[1])
        /\ final_result[2] # None
        /\ final_result[3] # None
        /\ final_result[5] \in {KindOrder[k] : k \in DOMAIN KindOrder}
        /\ final_result[4] = None
           <=> final_result[5] \in {"unfinished", "no_return", "special"}
        /\ Len(Tail(final_result)) = 4

\* a line of kind unfinished has given a record to store, its return value
\* padded
C21_Witness ==
    /\ Stored(final_result)
    /\ final_result[5] = "unfinished"
    /\ final_result[4] = None

----------------------------------------------------------------------------
(* C22 *)

\* C22: a record of kind special has a call name without surrounding
\* whitespace and None for its return value, and when the log holds the line
\* "<pid> +++ exited (status N) +++", lines_for_pid(pid, "exited") returns
\* the record of that exit, its args being "status N".
C22_SpecialName ==
    /\ Parsing =>
          \A i \in DOMAIN lines :
              lines[i][5] = "special" =>
                  /\ lines[i][2] = Strip(lines[i][2])
                  /\ lines[i][4] = None
    /\ Asked("lines_for_pid") /\ query.match = Exited =>
          \A n \in 0..9 :
              (\E i \in DOMAIN split_lines : split_lines[i] = ExitLine(query.pid, n))
                  => \E k \in DOMAIN ret.v :
                        ret.v[k] = <<Exited, <<"s", "t", "a", "t", "u", "s", " ", DigitChar(n)>>,
                                     None, "special">>

----------------------------------------------------------------------------
(* C23 *)

\* C23: for a line that a pattern of any kind matches, the second element of
\* the result is the second captured group without its text up to and
\* including the first "->" when the group holds "->", and the group itself
\* otherwise; the other captured groups are in the result as captured.
C23_SecondGroupCut ==
    final_result # NotCalled /\ MatchingKinds(trace_line) # {} =>
        \A g \in {Captured(KindOrder[Min(MatchingKinds(trace_line))], trace_line)} :
            /\ Contains(g[2], Arrow) => AfterFirstArrow(g[2], final_result[2])
            /\ ~Contains(g[2], Arrow) => final_result[2] = g[2]
            /\ \A i \in DOMAIN g \ {2} : final_result[i] = g[i]

\* a line of kind unfinished with "->" before its bracket and a line of kind
\* resumed with "->" after its name have been classified
C23_Witness ==
    /\ final_result # NotCalled
    /\ Len(final_result) = 5
    /\ final_result[5] \in {"unfinished", "resumed"}
    /\ \E i \in {2, 3} : Contains(Captured(final_result[5], trace_line)[i], Arrow)

----------------------------------------------------------------------------
(* The tracer as a process group: _exec under Trace.__init__, reached *)
(* directly or through TestTrace._check_trace                           *)

DEFAULT_LTRACE_LOG_FILE == "ltrace_log.txt"
DEFAULT_LTRACE_FLAGS == <<"-f", "-n", "2", "-o", DEFAULT_LTRACE_LOG_FILE>>

\* an argument ltrace_flags left at None, and the lists a caller passes
FlagsNone == <<"None">>
FlagsGiven == { <<>>, <<"-S">> }

\* _check_trace: the defaults, followed by the caller's flags (call_types is
\* empty)
check_trace_flags(given) ==
    IF given = FlagsNone THEN DEFAULT_LTRACE_FLAGS ELSE DEFAULT_LTRACE_FLAGS \o given

\* Trace.__init__: ltrace_flags or []
trace_flags(given) == IF given = FlagsNone \/ given = <<>> THEN <<>> ELSE given

\* where ltrace writes its trace: the file after -o, stderr without -o
OutputOf(flags) ==
    IF \E i \in 1..(Len(flags) - 1) : flags[i] = "-o"
    THEN flags[(CHOOSE i \in 1..(Len(flags) - 1) :
                   flags[i] = "-o" /\ \A j \in (i + 1)..(Len(flags) - 1) : flags[j] # "-o")
               + 1]
    ELSE "stderr"

\* the tracer, the traced program and a child the program forked: setsid in
\* preexec_fn makes them one process group
Processes == {"ltrace", "program", "child"}

\* a Trace is constructed, through _check_trace or directly: Popen starts
\* the tracer, or fails to
StartTracer(flags) ==
    /\ exec_at = "idle" \/ raw # Nothing
    /\ tracer_runs < MaxTraces
    /\ \A p \in DOMAIN pgroup : pgroup[p] # "running"
    /\ ltrace_flags' = flags
    /\ sigterm' = FALSE
    /\ raw' = Nothing
    /\ \/ /\ exec_at' = "communicate"
          /\ tracer_runs' = tracer_runs + 1
          /\ pgroup' = [p \in Processes |-> "running"]
          /\ log_written' = IF OutputOf(flags) = DEFAULT_LTRACE_LOG_FILE
                            THEN [kind |-> "written", by |-> tracer_runs + 1]
                            ELSE log_written
       \/ /\ exec_at' = "OSError"
          /\ UNCHANGED <<tracer_runs, pgroup, log_written>>
    /\ UNCHANGED outsideRunner

CheckTrace == \E given \in {FlagsNone} \cup FlagsGiven : StartTracer(check_trace_flags(given))

TraceDirect == \E given \in {FlagsNone} \cup FlagsGiven : StartTracer(trace_flags(given))

\* proc.communicate returns within the timeout: the pipes are closed and the
\* tracer has been waited for; its output decodes, or does not
CommunicateReturns ==
    /\ exec_at = "communicate"
    /\ pgroup' = [p \in Processes |-> "reaped"]
    /\ exec_at' \in {"returned", "UnicodeDecodeError"}
    /\ UNCHANGED <<ltrace_flags, tracer_runs, log_written, sigterm, raw, outsideRunner>>

\* proc.communicate raises TimeoutExpired: the except clause is entered
CommunicateTimesOut ==
    /\ exec_at = "communicate"
    /\ exec_at' = "except"
    /\ UNCHANGED <<ltrace_flags, tracer_runs, log_written, pgroup, sigterm, raw,
                   outsideRunner>>

\* a variant of the except clause that sends nothing
killpg_skipped(sent) == sent

\* os.killpg(os.getpgid(proc.pid), signal.SIGTERM)
killpg(sent) == TRUE

\* the except clause: the signal is sent, then the exception is raised again
KillpgAndRaise ==
    /\ exec_at = "except"
    /\ sigterm' = killpg(sigterm)
    /\ exec_at' = "TimeoutExpired"
    /\ UNCHANGED <<ltrace_flags, tracer_runs, log_written, pgroup, raw, outsideRunner>>

\* a signalled process ends when the signal reaches it and it does not hold
\* it back; nothing in _exec or the constructor waits for that
ProcessEnds ==
    /\ sigterm
    /\ \E p \in DOMAIN pgroup :
          /\ pgroup[p] = "running"
          /\ pgroup' = [pgroup EXCEPT ![p] = "exited"]
    /\ UNCHANGED <<ltrace_flags, tracer_runs, log_written, exec_at, sigterm, raw,
                   outsideRunner>>

\* _exec returned or its TimeoutExpired was passed over: open and read
\* DEFAULT_LTRACE_LOG_FILE
OpenLog ==
    /\ exec_at \in {"returned", "TimeoutExpired"}
    /\ raw = Nothing
    /\ raw' = IF log_written.kind = "written"
              THEN [kind |-> "read", by |-> log_written.by,
                    running |-> {p \in DOMAIN pgroup : pgroup[p] = "running"},
                    unreaped |-> {p \in DOMAIN pgroup : pgroup[p] # "reaped"}]
              ELSE [kind |-> "FileNotFoundError"]
    /\ UNCHANGED <<ltrace_flags, tracer_runs, log_written, pgroup, exec_at, sigterm,
                   outsideRunner>>

\* any other exception of _exec leaves the constructor
ExecRaises ==
    /\ exec_at \in {"OSError", "UnicodeDecodeError"}
    /\ raw = Nothing
    /\ raw' = [kind |-> exec_at]
    /\ UNCHANGED <<ltrace_flags, tracer_runs, log_written, pgroup, exec_at, sigterm,
                   outsideRunner>>

\* no Trace has been constructed; ltrace_log.txt is absent or left by an
\* earlier session
InitRunner ==
    /\ ltrace_flags = <<>>
    /\ tracer_runs = 0
    /\ log_written \in {[kind |-> "absent"], [kind |-> "written", by |-> 0]}
    /\ pgroup = <<>>
    /\ exec_at = "idle"
    /\ sigterm = FALSE
    /\ raw = Nothing
    /\ TraceIdle
    /\ RunnerAlone

NextRunner ==
    \/ CheckTrace
    \/ TraceDirect
    \/ CommunicateReturns
    \/ CommunicateTimesOut
    \/ KillpgAndRaise
    \/ ProcessEnds
    \/ OpenLog
    \/ ExecRaises

SpecRunner == InitRunner /\ [][NextRunner]_vars

----------------------------------------------------------------------------
(* C24, C25, C26 *)

\* C24: when the constructor reads the log after a timeout, SIGTERM has been
\* sent and no process of the tracer's group is running or unreaped.
C24_GroupReapedBeforeRead ==
    raw.kind = "read" /\ exec_at = "TimeoutExpired"
    => /\ sigterm
       /\ raw.running = {}
       /\ raw.unreaped = {}

\* C25 as stated: a call of _exec that has ended has returned, no signal
\* sent, or has raised TimeoutExpired, SIGTERM sent before.
C25_TwoEndings ==
    exec_at \notin {"idle", "communicate", "except"}
    => \/ exec_at = "returned" /\ ~sigterm
       \/ exec_at = "TimeoutExpired" /\ sigterm

\* C25, amended: a call of _exec whose subprocess was started and whose
\* output decodes ends by returning, no signal sent, or by raising
\* TimeoutExpired, SIGTERM sent before; a call that ends with another
\* exception (no subprocess, undecodable output) has sent no signal.
C25_ReturnOrSignalledTimeout ==
    /\ exec_at = "returned" => ~sigterm
    /\ exec_at = "TimeoutExpired" => sigterm
    /\ exec_at \in {"OSError", "UnicodeDecodeError"} => ~sigterm
    /\ exec_at \in {"idle", "communicate", "except", "returned", "TimeoutExpired",
                    "OSError", "UnicodeDecodeError"}

\* _exec has raised TimeoutExpired while processes of the group still run
C25_Witness ==
    /\ exec_at = "TimeoutExpired"
    /\ sigterm
    /\ \E p \in DOMAIN pgroup : pgroup[p] = "running"

\* C26: what a construction reads from the log file was written by the
\* tracer invocation of that construction.
C26_OwnLogRead ==
    raw # Nothing /\ raw.kind \notin {"OSError", "UnicodeDecodeError"}
    => raw.kind = "read" /\ raw.by = tracer_runs

----------------------------------------------------------------------------
(* C27, C28 *)

\* the flat records before the i-th that have its pid
EarlierOfPid(i) == {j \in 1..(i - 1) : lines[j][1] = lines[i][1]}

\* C27: the flat list and process_log hold the same records: as many in the
\* flat list as in all buckets together; the i-th flat record, without its
\* pid, at the place in the bucket of its pid that the number of earlier flat
\* records of that pid gives; a bucket for the pids of the flat list and no
\* others, none of them empty.
C27_TwoViews ==
    Parsing =>
        /\ Len(lines) = SumLen(process_log, DOMAIN process_log)
        /\ \A i \in DOMAIN lines :
              /\ lines[i][1] \in DOMAIN process_log
              /\ Cardinality(EarlierOfPid(i)) + 1 \in DOMAIN process_log[lines[i][1]]
              /\ process_log[lines[i][1]][Cardinality(EarlierOfPid(i)) + 1] = Tail(lines[i])
        /\ DOMAIN process_log = {lines[i][1] : i \in DOMAIN lines}
        /\ \A pid \in DOMAIN process_log : process_log[pid] # <<>>

\* a Trace has been constructed whose flat list holds a record of another
\* pid between two records of one pid
C27_Witness ==
    /\ pc = "done"
    /\ \E i, j, k \in DOMAIN lines :
          /\ i < j /\ j < k
          /\ lines[i][1] = lines[k][1]
          /\ lines[i][1] # lines[j][1]

\* C28: a query on a constructed Trace leaves process_log, the flat list,
\* the raw text and first_process as they are; a query for a pid the trace
\* does not hold adds no key to process_log.
C28_QueriesReadOnly ==
    [][pc = "done" /\ pc' = "done"
       => /\ UNCHANGED <<process_log, lines, split_lines, log_file, first_process>>
          /\ DOMAIN process_log' = DOMAIN process_log]_vars

\* get_status has been asked, on a trace that holds records, for a pid the
\* trace does not hold
C28_Witness ==
    /\ Asked("get_status")
    /\ lines # <<>>
    /\ query.pid \notin {lines[i][1] : i \in DOMAIN lines}

----------------------------------------------------------------------------
(* ongoing_process: the context manager around a spawned server           *)

SIGKILL == 9

\* the exit statuses of a server that ends by itself: success, failure, a
\* segmentation fault
ExitStatuses == {0, 1, -11}

\* what a with body raises: subclasses of Exception, and exceptions that are
\* BaseException only
BodyExceptions == {"AssertionError", "ConnectionRefusedError"}
BodyInterrupts == {"KeyboardInterrupt"}

Servers ==
    [ends : BOOLEAN, status : ExitStatuses, output : {"text", "bytes"}]

Bodies ==
    {[kind |-> "returns"]}
        \cup [kind : {"raises"}, exception : BodyExceptions \cup BodyInterrupts]

\* subprocess.Popen(args, ...): the process runs, proc.returncode is None
\* (the empty sequence), proc.stdout is the pipe; control is at the yield
Popen ==
    /\ context_at = "idle"
    /\ \E ck \in BOOLEAN, sv \in Servers, b \in Bodies :
          /\ check_killed' = ck
          /\ server' = sv
          /\ with_body' = b
    /\ proc' = [alive |-> TRUE, status |-> 0, returncode |-> <<>>,
                exception |-> "unset", stdout |-> "pipe"]
    /\ context_at' = "yield"
    /\ left_by' = Nothing
    /\ UNCHANGED outsideOngoing

\* the server ends by itself, at any time before it is killed
ServerEnds ==
    /\ context_at \in {"yield", "finally"}
    /\ proc.alive
    /\ server.ends
    /\ proc' = [proc EXCEPT !.alive = FALSE, !.status = server.status]
    /\ UNCHANGED <<check_killed, server, with_body, context_at, left_by, outsideOngoing>>

\* the body completes: the else clause
BodyCompletes ==
    /\ context_at = "yield"
    /\ with_body.kind = "returns"
    /\ proc' = [proc EXCEPT !.exception = "None"]
    /\ context_at' = "finally"
    /\ UNCHANGED <<check_killed, server, with_body, left_by, outsideOngoing>>

\* the body raises: 'except Exception as e' stores an Exception; any other
\* exception passes both clauses and stays pending through the finally clause
BodyRaises ==
    /\ context_at = "yield"
    /\ with_body.kind = "raises"
    /\ proc' = [proc EXCEPT !.exception =
                   IF with_body.exception \in BodyExceptions
                   THEN with_body.exception ELSE "unset"]
    /\ context_at' = "finally"
    /\ UNCHANGED <<check_killed, server, with_body, left_by, outsideOngoing>>

\* proc.kill(): SIGKILL to a process that still runs; one that has ended is
\* left as it is
Kill ==
    /\ context_at = "finally"
    /\ proc' = IF proc.alive
               THEN [proc EXCEPT !.alive = FALSE, !.status = -SIGKILL]
               ELSE proc
    /\ context_at' = "communicate"
    /\ UNCHANGED <<check_killed, server, with_body, left_by, outsideOngoing>>

\* proc.stdout, proc.stderr = proc.communicate(): the process is waited for,
\* then the output is decoded with the locale's encoding.  Undecodable output
\* makes communicate raise; a pending exception of the body leaves the
\* generator at the end of the finally clause
Communicate ==
    /\ context_at = "communicate"
    /\ IF server.output = "bytes"
       THEN /\ proc' = [proc EXCEPT !.returncode = <<proc.status>>]
            /\ context_at' = "left"
            /\ left_by' = [kind |-> "raised", exception |-> "UnicodeDecodeError",
                           in |-> "communicate"]
       ELSE /\ proc' = [proc EXCEPT !.returncode = <<proc.status>>, !.stdout = "str"]
            /\ IF proc.exception = "unset"
               THEN /\ context_at' = "left"
                    /\ left_by' = [kind |-> "raised", exception |-> with_body.exception,
                                   in |-> "body"]
               ELSE /\ context_at' = "after"
                    /\ UNCHANGED left_by
    /\ UNCHANGED <<check_killed, server, with_body, outsideOngoing>>

\* a variant that asserts the exit status whatever the body did
LeftByAssertFirst(p, ck) ==
    IF ck /\ p.returncode # <<-SIGKILL>>
    THEN [kind |-> "raised", exception |-> "AssertionError", in |-> "assert"]
    ELSE IF p.exception # "None"
    THEN [kind |-> "raised", exception |-> p.exception, in |-> "body"]
    ELSE [kind |-> "normal"]

\* the statements after the try statement: raise proc.exception if there is
\* one, else assert proc.returncode == -9 if check_killed
LeftBy(p, ck) ==
    IF p.exception # "None"
    THEN [kind |-> "raised", exception |-> p.exception, in |-> "body"]
    ELSE IF ck /\ p.returncode # <<-SIGKILL>>
    THEN [kind |-> "raised", exception |-> "AssertionError", in |-> "assert"]
    ELSE [kind |-> "normal"]

Leave ==
    /\ context_at = "after"
    /\ left_by' = LeftBy(proc, check_killed)
    /\ context_at' = "left"
    /\ UNCHANGED <<check_killed, server, with_body, proc, outsideOngoing>>

InitOngoing ==
    /\ OngoingIdle
    /\ TraceIdle
    /\ OngoingAlone

NextOngoing ==
    \/ Popen
    \/ ServerEnds
    \/ BodyCompletes
    \/ BodyRaises
    \/ Kill
    \/ Communicate
    \/ Leave

SpecOngoing == InitOngoing /\ [][NextOngoing]_vars

----------------------------------------------------------------------------
(* C29 *)

\* the process no longer runs and has been waited for
Reaped == ~proc.alive /\ proc.returncode = <<proc.status>>

\* the exit status is asserted, and the assertion fails
AssertFails ==
    left_by = [kind |-> "raised", exception |-> "AssertionError", in |-> "assert"]

\* C29 as stated: when control has left the with statement, the process has
\* been killed and its output collected; an exception of the body has been
\* raised again; the exit status was asserted to be -9 exactly when the body
\* raised nothing and check_killed is True.
C29_CleanupOnEveryPath ==
    context_at = "left"
    => /\ Reaped
       /\ proc.stdout = "str"
       /\ with_body.kind = "raises"
          => left_by = [kind |-> "raised", exception |-> with_body.exception,
                        in |-> "body"]
       /\ with_body.kind = "returns"
          => left_by = IF check_killed /\ proc.returncode # <<-SIGKILL>>
                       THEN [kind |-> "raised", exception |-> "AssertionError",
                             in |-> "assert"]
                       ELSE [kind |-> "normal"]

\* C29, amended: when control has left the with statement, the process has
\* been killed and waited for.  Unless communicate raised on undecodable
\* output, the output has been collected, an exception of the body has been
\* raised again, and the exit status was asserted to be -9 exactly when the
\* body raised nothing and check_killed is True.
C29_CleanupBeforeLeaving ==
    context_at = "left"
    => /\ Reaped
       /\ \/ /\ server.output = "bytes"
             /\ proc.stdout = "pipe"
             /\ left_by = [kind |-> "raised", exception |-> "UnicodeDecodeError",
                           in |-> "communicate"]
          \/ /\ server.output = "text"
             /\ proc.stdout = "str"
             /\ with_body.kind = "raises"
                => left_by = [kind |-> "raised", exception |-> with_body.exception,
                              in |-> "body"]
             /\ with_body.kind = "returns"
                => left_by = IF check_killed /\ proc.returncode # <<-SIGKILL>>
                             THEN [kind |-> "raised", exception |-> "AssertionError",
                                   in |-> "assert"]
                             ELSE [kind |-> "normal"]

\* the body raised while check_killed is True and the server had ended by
\* itself: the body's exception left the with statement, no assertion made
C29_Witness ==
    /\ context_at = "left"
    /\ check_killed
    /\ with_body.kind = "raises"
    /\ with_body.exception \in BodyExceptions
    /\ proc.returncode # <<-SIGKILL>>
    /\ proc.stdout = "str"
    /\ left_by.kind = "raised" /\ left_by.in = "body"
    /\ ~AssertFails

====
